---- MODULE Spec2Model ----
(***************************************************************************)
(* Model of the memory-extraction pipeline of backend/app:                 *)
(*   - BackgroundJobProcessor (background_jobs.py): the job queue, the     *)
(*     worker thread(s), start()/stop(), _process_job with its job-level   *)
(*     retry and the failure artifact            (specification Spec);     *)
(*   - _store_memories_with_deduplication with _store_memory_with_retry    *)
(*     and _reinforce_memory_with_retry          (specification SpecBatch).*)
(***************************************************************************)
EXTENDS Integers, Sequences, FiniteSets, TLC

\* ---------------------------------------------------------------- bounds
MaxJobs == 2
MaxThreads == 2
MaxBatch == 2
MaxExisting == 1
MaxEntries == 2      \* entries the cache holds at once
MaxSmallTicks == 2   \* one-second clock steps within a cleanup interval
MaxText == 3         \* characters of a content handed to get_content_hash
MaxRaw == 1          \* entries of a raw list handed to _validate_memory_response
MaxMsgs == 3         \* messages of a transcript handed to _chunk_transcript
MaxChunks == 5       \* chunks the list `chunks` can hold before memory runs out
MaxPieces == 3        \* pieces a content handed to the privacy pass is made of

\* ------------------------------------------------------ program constants
\* background_jobs.py:125  max_retries = 3
max_retries == 3
\* background_jobs.py:124  retry_delays = [60, 300, 1800]
retry_delays == <<60, 300, 1800>>
\* background_jobs.py:238  "extraction_attempts": 3
extraction_attempts == 3

\* config/settings.py:66  memory_storage_retry_attempts: int = 3
memory_storage_retry_attempts == 3
\* config/settings.py:67  memory_storage_retry_delay_seconds: int = 1
memory_storage_retry_delay_seconds == 1
\* config/settings.py:59  memory_similarity_threshold: float = 0.85, in hundredths
memory_similarity_threshold == 85

\* memory_cache.py:27  def __init__(self, default_ttl: int = 3600)
default_ttl == 3600
\* memory_cache.py:36  self._cleanup_interval = 300
cleanup_interval == 300

\* ------------------------------------------------------------ MemoryCache
\* Identifiers are strings, modelled as sequences of characters; << >> is an
\* agent_id that is None or "" (both are falsy at memory_cache.py:41).
NoAgent == << >>
CacheArgs ==
    { << <<"c1">>, <<"a1">> >>, << <<"c1">>, <<"a2">> >>,
      << <<"c1">>, NoAgent >>,  << <<"c2">>, <<"a1">> >> }

\* memory_cache.py:39-43  f"{caller_id}:{agent_id}" or f"{caller_id}:*"
get_cache_key(caller_id, agent_id) ==
    IF agent_id # NoAgent
    THEN caller_id \o <<":">> \o agent_id
    ELSE caller_id \o <<":">> \o <<"*">>

CacheKeys ==
    { get_cache_key(a[1], a[2]) : a \in CacheArgs }
        \cup { get_cache_key(a[1], NoAgent) : a \in CacheArgs }

\* memory_cache.py:106. ttl: Optional[int] = None; the argument left out.
NoTtl == -1

NoEntry == [memories |-> << >>, timestamp |-> -1, ttl |-> -1]
EmptyCache == [k \in CacheKeys |-> NoEntry]
Present(c) == { k \in CacheKeys : c[k] # NoEntry }

\* The ttl arguments remembered for the entries of cache c: those of absent
\* keys are forgotten.
TtlGiven(c, given) == [k \in CacheKeys |-> IF c[k] = NoEntry THEN NoTtl ELSE given[k]]

\* A mutation of _is_expired: an entry lives one second longer than its TTL.
is_expired_one_late(cache_entry, t) == t - cache_entry.timestamp > cache_entry.ttl + 1

\* memory_cache.py:45-49  time.time() - timestamp > ttl
is_expired(cache_entry, t) == t - cache_entry.timestamp > cache_entry.ttl

\* memory_cache.py:51-68  nothing within _cleanup_interval of the last cleanup;
\* otherwise every expired entry is deleted
cleanup_due(t, last) == ~ (t - last < cleanup_interval)

cleanup_expired(c, t, last) ==
    IF cleanup_due(t, last)
    THEN [k \in CacheKeys |->
            IF c[k] # NoEntry /\ is_expired(c[k], t) THEN NoEntry ELSE c[k]]
    ELSE c

\* A mutation of invalidate: the key is left in place.
invalidate_keeps_key(c, caller_id, agent_id) ==
    [k \in CacheKeys |->
        IF agent_id # NoAgent /\ k = get_cache_key(caller_id, NoAgent)
        THEN NoEntry ELSE c[k]]

\* A mutation of invalidate: every entry of the caller is deleted.
invalidate_whole_caller(c, caller_id, agent_id) ==
    [k \in CacheKeys |->
        IF SubSeq(k, 1, Len(caller_id)) = caller_id THEN NoEntry ELSE c[k]]

\* memory_cache.py:129-152  the key is deleted when present; with an agent_id
\* the caller's wildcard key is deleted as well
invalidate(c, caller_id, agent_id) ==
    [k \in CacheKeys |->
        IF \/ k = get_cache_key(caller_id, agent_id)
           \/ agent_id # NoAgent /\ k = get_cache_key(caller_id, NoAgent)
        THEN NoEntry ELSE c[k]]

\* memory_cache.py:142-151, left by an exception: the deletions made before the
\* statement that raised, none, the key's, or both.
invalidate_raised(c, caller_id, agent_id) ==
    { c,
      [c EXCEPT ![get_cache_key(caller_id, agent_id)] = NoEntry],
      invalidate(c, caller_id, agent_id) }

\* background_jobs.py:38-40  job.caller_id, job.agent_id: the jobs are those of
\* one caller with one agent.
JobCaller == <<"c1">>
JobAgent == <<"a1">>

JobIds == 1..MaxJobs
Threads == 1..MaxThreads

\* A transcript is a sequence of {role, message}; the empty one and a short one.
Transcripts ==
    { << >>,
      << [role |-> "agent", message |-> "Hello"],
         [role |-> "user", message |-> "My name is Jane Doe"] >> }

VARIABLES
    queue,          \* self.queue: the FIFO of enqueued jobs (job ids)
    running,        \* self.running
    worker_thread,  \* self.worker_thread: 0 is None, else the last thread created
    mainpc,         \* the caller of start()/stop(): "idle", or "join" inside stop()
    wpc,            \* each worker thread's position in _worker
    wjob,           \* the job a worker thread holds (0: none)
    wattempt,       \* the loop variable `attempt` of _process_job, per thread
    jobTranscript,  \* job.transcript, fixed at enqueue
    jobState,       \* New / Queued / Processing / Completed / CompletedNoMemories / FailedExhausted
    jobLog,         \* per job, one record per attempt started
    sleeps,         \* per job, the delays slept between attempts
    timer,          \* per thread, the seconds its asyncio.sleep still has to run
    artifacts,      \* conversation id -> the failure payload on disk, or NoArtifact
    saveRaised,     \* per job: save_transcription_payload raised in _save_failed_transcript
    arrivals,       \* history: job ids in enqueue order
    dequeued,       \* history: job ids in dequeue order
    \* ---- _store_memories_with_deduplication (specification SpecBatch)
    memories,              \* the batch: the validated records handed to the routine
    store,                 \* the memory store's memories of this caller and agent
    store_up,              \* environment: the store accepts every write of this run
    similar_memories_map,  \* content hash -> matched existing memory, or None
    pending_hashes,        \* batch_find_similar_memories: hashes still to search
    bpc,                   \* position in the routine
    idx,                   \* index of the record of `for memory in memories`
    retry,                 \* the _with_retry call of the current record: its attempts so far
    stored_memory_ids,
    reinforced_memory_ids,
    failed_memories,
    record_log,            \* history: per processed record, its branch and outcome
    lookup,                \* history: how batch_find_similar_memories went for this batch
    \* ---- find_similar_memory on its own (specification SpecFind)
    find_call,             \* one call: the store, the hash, the store's answers, the result
    \* ---- MemoryCache (specifications SpecCache, SpecJobCache)
    cache,                 \* self.cache: cache key -> entry, NoEntry when the key is absent
    now,                   \* time.time(), in seconds since the cache was constructed
    last_cleanup,          \* self._last_cleanup
    last_op,               \* history: the cache call just made, if one was made at this instant
    set_ttl,               \* history: per key, the ttl argument of the last set for it (NoTtl: none given)
    \* ---- one call of a function looked at alone (specifications SpecHash, ...)
    call                   \* the function called, its arguments, its position, its result

jobVars == << queue, running, worker_thread, mainpc, wpc, wjob, wattempt,
              jobTranscript, jobState, jobLog, sleeps, timer, artifacts, saveRaised,
              arrivals, dequeued >>

batchVars == << memories, store, store_up, similar_memories_map, pending_hashes, bpc,
                idx, retry, stored_memory_ids, reinforced_memory_ids,
                failed_memories, record_log, lookup >>

findVars == << find_call >>

cacheVars == << cache, now, last_cleanup, last_op, set_ttl >>

callVars == << call >>

vars == << jobVars, batchVars, findVars, cacheVars, callVars >>

\* What the actions of the job processor leave alone, and what the actions of
\* the storage routine leave alone.
nonJobVars == << batchVars, findVars, cacheVars, callVars >>

nonBatchVars == << jobVars, findVars, cacheVars, callVars >>

NoArtifact == [status |-> "none"]

Terminal == {"Completed", "CompletedNoMemories", "FailedExhausted"}

\* A thread that has been started and has not left _worker.
Alive(t) == wpc[t] \notin {"none", "dead"}

\* A thread that holds a dequeued job whose _process_job has not returned.
InFlight(t) == wpc[t] \in {"attempt", "sleep"}

\* background_jobs.py:50-53. The processor after construction; no job yet.
JobInit ==
    /\ queue = << >>
    /\ running = FALSE
    /\ worker_thread = 0
    /\ mainpc = "idle"
    /\ wpc = [t \in Threads |-> "none"]
    /\ wjob = [t \in Threads |-> 0]
    /\ wattempt = [t \in Threads |-> 0]
    /\ jobTranscript = [j \in JobIds |-> << >>]
    /\ jobState = [j \in JobIds |-> "New"]
    /\ jobLog = [j \in JobIds |-> << >>]
    /\ sleeps = [j \in JobIds |-> << >>]
    /\ timer = [t \in Threads |-> 0]
    /\ artifacts = [j \in JobIds |-> NoArtifact]
    /\ saveRaised = [j \in JobIds |-> FALSE]
    /\ arrivals = << >>
    /\ dequeued = << >>

\* ---------------------------------------------------------------- start()
\* background_jobs.py:62-71. `if self.running: return`; else running = True and
\* a new Thread(target=self._worker) is created and started.
NewThread == CHOOSE t \in Threads : wpc[t] = "none" /\ \A u \in Threads : wpc[u] = "none" => t <= u

start ==
    /\ mainpc = "idle"
    /\ IF running
       THEN UNCHANGED << running, worker_thread, wpc >>
       ELSE /\ \E t \in Threads : wpc[t] = "none"
            /\ running' = TRUE
            /\ worker_thread' = NewThread
            /\ wpc' = [wpc EXCEPT ![NewThread] = "loop"]
    /\ UNCHANGED << queue, mainpc, wjob, wattempt, jobTranscript, jobState, jobLog,
                    sleeps, timer, artifacts, saveRaised, arrivals, dequeued, nonJobVars >>

\* ----------------------------------------------------------------- stop()
\* background_jobs.py:73-78. running = False, then join(timeout=5) on
\* self.worker_thread if there is one.
stop_begin ==
    /\ mainpc = "idle"
    /\ running' = FALSE
    /\ mainpc' = IF worker_thread # 0 THEN "join" ELSE "idle"
    /\ UNCHANGED << queue, worker_thread, wpc, wjob, wattempt, jobTranscript, jobState,
                    jobLog, sleeps, timer, artifacts, saveRaised, arrivals, dequeued, nonJobVars >>

\* join(timeout=5) returns when the thread has ended, or on its timeout while the
\* thread is still busy with a job (an idle worker polls with a 1 s timeout and
\* sees running = False within the 5 s).
stop_return ==
    /\ mainpc = "join"
    /\ \/ wpc[worker_thread] = "dead"
       \/ InFlight(worker_thread)
    /\ mainpc' = "idle"
    /\ UNCHANGED << queue, running, worker_thread, wpc, wjob, wattempt, jobTranscript,
                    jobState, jobLog, sleeps, timer, artifacts, saveRaised, arrivals, dequeued, nonJobVars >>

\* ---------------------------------------------------------- enqueue_job()
\* background_jobs.py:80-85. queue.put(job); never blocks (unbounded Queue).
enqueue_job ==
    /\ Len(arrivals) < MaxJobs
    /\ LET j == Len(arrivals) + 1 IN
       \E tr \in Transcripts :
          /\ queue' = Append(queue, j)
          /\ arrivals' = Append(arrivals, j)
          /\ jobTranscript' = [jobTranscript EXCEPT ![j] = tr]
          /\ jobState' = [jobState EXCEPT ![j] = "Queued"]
    /\ UNCHANGED << running, worker_thread, mainpc, wpc, wjob, wattempt, jobLog,
                    sleeps, timer, artifacts, saveRaised, dequeued, nonJobVars >>

\* ----------------------------------------------------------------- _worker
\* background_jobs.py:91. `while self.running:`; the thread ends when it is False.
worker_loop(t) ==
    /\ wpc[t] = "loop"
    /\ wpc' = [wpc EXCEPT ![t] = IF running THEN "get" ELSE "dead"]
    /\ UNCHANGED << queue, running, worker_thread, mainpc, wjob, wattempt, jobTranscript,
                    jobState, jobLog, sleeps, timer, artifacts, saveRaised, arrivals, dequeued, nonJobVars >>

\* background_jobs.py:94-97. job = self.queue.get(timeout=1); Empty -> continue.
worker_get(t) ==
    /\ wpc[t] = "get"
    /\ IF queue # << >>
       THEN /\ queue' = Tail(queue)
            /\ wjob' = [wjob EXCEPT ![t] = Head(queue)]
            /\ wattempt' = [wattempt EXCEPT ![t] = 0]
            /\ jobState' = [jobState EXCEPT ![Head(queue)] = "Processing"]
            /\ dequeued' = Append(dequeued, Head(queue))
            /\ wpc' = [wpc EXCEPT ![t] = "attempt"]
       ELSE /\ wpc' = [wpc EXCEPT ![t] = "loop"]
            /\ UNCHANGED << queue, wjob, wattempt, jobState, dequeued >>
    /\ UNCHANGED << running, worker_thread, mainpc, jobTranscript, jobLog, sleeps, timer,
                    artifacts, saveRaised, arrivals, nonJobVars >>

\* ------------------------------------------------------------ _process_job
\* llm_service.py:51-57, 162-166. extract_memories returns [] for a transcript
\* with no valid message and on any exception; otherwise what the chunks gave
\* (possibly nothing).  _process_job only tests `if not extracted_memories`:
\* TRUE stands for a non-empty list of records, FALSE for the empty list.
extract_memories(transcript) ==
    IF transcript = << >> THEN {FALSE} ELSE {FALSE, TRUE}

\* Mutant of IsLastAttempt: the last attempt is taken to be one later.
IsLastAttempt_OneLater(attempt) == attempt = max_retries

\* background_jobs.py:200. `if attempt == max_retries - 1` (attempt is 0-based).
IsLastAttempt(attempt) == attempt = max_retries - 1

\* background_jobs.py:209. delay = retry_delays[attempt] (0-based in the code).
RetryDelay(attempt) == retry_delays[attempt + 1]

\* Mutant of FailedPayload: the payload is written without the transcript.
FailedPayload_NoTranscript(j) ==
    [ status |-> "extraction_failed",
      conversation_id |-> j,
      transcript |-> << >>,
      extraction_attempts |-> extraction_attempts ]

\* background_jobs.py:231-241. The payload _save_failed_transcript writes.
FailedPayload(j) ==
    [ status |-> "extraction_failed",
      conversation_id |-> j,
      transcript |-> jobTranscript[j],
      extraction_attempts |-> extraction_attempts ]

\* One attempt: whether extraction gave records, whether the storage step
\* (_store_memories_with_deduplication) ran, and how the attempt ended.
LogEntry(extracted, ranStorage, outcome) ==
    [extracted |-> extracted, storage |-> ranStorage, outcome |-> outcome]

\* Mutant of task_done: the worker thread leaves _worker after its first job.
task_done_thread_exits(t) ==
    /\ wpc' = [wpc EXCEPT ![t] = "dead"]
    /\ wjob' = [wjob EXCEPT ![t] = 0]

\* background_jobs.py:101-103. _process_job returned: asyncio.run ends,
\* self.queue.task_done(), back to the loop test.
task_done(t) ==
    /\ wpc' = [wpc EXCEPT ![t] = "loop"]
    /\ wjob' = [wjob EXCEPT ![t] = 0]

\* Mutant of attempt_no_memories: an empty extraction does not return; the
\* attempt goes on to the storage step and the job completes as stored.
attempt_no_memories_goes_on(t) ==
    /\ wpc[t] = "attempt"
    /\ FALSE \in extract_memories(jobTranscript[wjob[t]])
    /\ jobLog' = [jobLog EXCEPT ![wjob[t]] = Append(@, LogEntry(FALSE, TRUE, "ok"))]
    /\ jobState' = [jobState EXCEPT ![wjob[t]] = "Completed"]
    /\ task_done(t)
    /\ UNCHANGED << queue, running, worker_thread, mainpc, wattempt, jobTranscript,
                    sleeps, timer, artifacts, saveRaised, arrivals, dequeued, nonJobVars >>

\* background_jobs.py:129-150. Profile fetch (swallows its errors), extraction,
\* `if not extracted_memories: return`.
attempt_no_memories(t) ==
    /\ wpc[t] = "attempt"
    /\ FALSE \in extract_memories(jobTranscript[wjob[t]])
    /\ jobLog' = [jobLog EXCEPT ![wjob[t]] = Append(@, LogEntry(FALSE, FALSE, "nomem"))]
    /\ jobState' = [jobState EXCEPT ![wjob[t]] = "CompletedNoMemories"]
    /\ task_done(t)
    /\ UNCHANGED << queue, running, worker_thread, mainpc, wattempt, jobTranscript,
                    sleeps, timer, artifacts, saveRaised, arrivals, dequeued, nonJobVars >>

\* A mutation of attempt_success: the cache is not invalidated.
attempt_success_keeps_cache(t) ==
    /\ wpc[t] = "attempt"
    /\ TRUE \in extract_memories(jobTranscript[wjob[t]])
    /\ jobLog' = [jobLog EXCEPT ![wjob[t]] = Append(@, LogEntry(TRUE, TRUE, "ok"))]
    /\ jobState' = [jobState EXCEPT ![wjob[t]] = "Completed"]
    /\ task_done(t)
    /\ UNCHANGED << queue, running, worker_thread, mainpc, wattempt, jobTranscript,
                    sleeps, timer, artifacts, saveRaised, arrivals, dequeued, nonJobVars >>

\* background_jobs.py:152-190. Storage step, cache invalidation (164-168),
\* validation (swallows its errors), `return`.
attempt_success(t) ==
    /\ wpc[t] = "attempt"
    /\ TRUE \in extract_memories(jobTranscript[wjob[t]])
    /\ cache' = invalidate(cache, JobCaller, JobAgent)
    /\ set_ttl' = TtlGiven(cache', set_ttl)
    /\ jobLog' = [jobLog EXCEPT ![wjob[t]] = Append(@, LogEntry(TRUE, TRUE, "ok"))]
    /\ jobState' = [jobState EXCEPT ![wjob[t]] = "Completed"]
    /\ task_done(t)
    /\ UNCHANGED << queue, running, worker_thread, mainpc, wattempt, jobTranscript,
                    sleeps, timer, artifacts, saveRaised, arrivals, dequeued,
                    batchVars, findVars, callVars, now, last_cleanup, last_op >>

\* background_jobs.py:192-213. An exception escaped the attempt's try body.  The
\* profile update, the extraction, the storage step and the validation catch
\* their own errors; the cache invalidation at 164-168 is the one step with no
\* guard of its own, so the exception is one raised there, after the storage
\* step has run.  Not the last attempt: sleep retry_delays[attempt], then the
\* next attempt.
attempt_failed_retry(t) ==
    /\ wpc[t] = "attempt"
    /\ ~IsLastAttempt(wattempt[t])
    /\ TRUE \in extract_memories(jobTranscript[wjob[t]])
    /\ cache' \in invalidate_raised(cache, JobCaller, JobAgent)
    /\ set_ttl' = TtlGiven(cache', set_ttl)
    /\ jobLog' = [jobLog EXCEPT ![wjob[t]] = Append(@, LogEntry(TRUE, TRUE, "exc"))]
    /\ sleeps' = [sleeps EXCEPT ![wjob[t]] = Append(@, RetryDelay(wattempt[t]))]
    /\ timer' = [timer EXCEPT ![t] = RetryDelay(wattempt[t])]
    /\ wpc' = [wpc EXCEPT ![t] = "sleep"]
    /\ UNCHANGED << queue, running, worker_thread, mainpc, wjob, wattempt, jobTranscript,
                    jobState, artifacts, saveRaised, arrivals, dequeued,
                    batchVars, findVars, callVars, now, last_cleanup, last_op >>

\* background_jobs.py:215-258. _save_failed_transcript: write the payload; an
\* error of save_transcription_payload (storage.py:46-48 re-raises) is logged
\* and swallowed at 254-258.
save_failed_transcript(j, saveOk) ==
    /\ artifacts' = [artifacts EXCEPT ![j] = IF saveOk THEN FailedPayload(j) ELSE @]
    /\ saveRaised' = [saveRaised EXCEPT ![j] = ~saveOk]

\* background_jobs.py:200-206. The last attempt failed: save the transcript, return.
attempt_failed_exhausted(t) ==
    /\ wpc[t] = "attempt"
    /\ IsLastAttempt(wattempt[t])
    /\ TRUE \in extract_memories(jobTranscript[wjob[t]])
    /\ cache' \in invalidate_raised(cache, JobCaller, JobAgent)
    /\ set_ttl' = TtlGiven(cache', set_ttl)
    /\ jobLog' = [jobLog EXCEPT ![wjob[t]] = Append(@, LogEntry(TRUE, TRUE, "exc"))]
    /\ \E saveOk \in BOOLEAN : save_failed_transcript(wjob[t], saveOk)
    /\ jobState' = [jobState EXCEPT ![wjob[t]] = "FailedExhausted"]
    /\ task_done(t)
    /\ UNCHANGED << queue, running, worker_thread, mainpc, wattempt, jobTranscript,
                    sleeps, timer, arrivals, dequeued,
                    batchVars, findVars, callVars, now, last_cleanup, last_op >>

\* background_jobs.py:213. The delay of asyncio.sleep(delay) runs out.
sleep_elapses(t) ==
    /\ wpc[t] = "sleep"
    /\ timer[t] > 0
    /\ timer' = [timer EXCEPT ![t] = 0]
    /\ UNCHANGED << queue, running, worker_thread, mainpc, wpc, wjob, wattempt,
                    jobTranscript, jobState, jobLog, sleeps, artifacts, saveRaised,
                    arrivals, dequeued, nonJobVars >>

\* A mutation of attempt_wake: the next attempt does not wait for the delay.
attempt_wake_early(t) ==
    /\ wpc[t] = "sleep"
    /\ wattempt' = [wattempt EXCEPT ![t] = @ + 1]
    /\ wpc' = [wpc EXCEPT ![t] = "attempt"]
    /\ timer' = [timer EXCEPT ![t] = 0]
    /\ UNCHANGED << queue, running, worker_thread, mainpc, wjob, jobTranscript, jobState,
                    jobLog, sleeps, artifacts, saveRaised, arrivals, dequeued, nonJobVars >>

\* background_jobs.py:213, 127. asyncio.sleep(delay) returns once the delay has
\* run out; next loop iteration.
attempt_wake(t) ==
    /\ wpc[t] = "sleep"
    /\ timer[t] = 0
    /\ wattempt' = [wattempt EXCEPT ![t] = @ + 1]
    /\ wpc' = [wpc EXCEPT ![t] = "attempt"]
    /\ UNCHANGED << queue, running, worker_thread, mainpc, wjob, jobTranscript, jobState,
                    jobLog, sleeps, timer, artifacts, saveRaised, arrivals, dequeued, nonJobVars >>

\* background_jobs.py:110-213. One step of _process_job.
process_job(t) ==
    \/ attempt_no_memories(t)
    \/ attempt_success(t)
    \/ attempt_failed_retry(t)
    \/ attempt_failed_exhausted(t)
    \/ sleep_elapses(t)
    \/ attempt_wake(t)

\* background_jobs.py:87-108. One step of a worker thread.
worker(t) ==
    \/ worker_loop(t)
    \/ worker_get(t)
    \/ process_job(t)

\* =====================================================================
\* _store_memories_with_deduplication and what it calls
\* =====================================================================

\* Memory content is text: a sequence of characters.  The contents of the model.
Txt_a_b  == << "a", " ", "b" >>             \* "a b"
Txt_A_b  == << "A", " ", "b" >>             \* "A b": "a b" in another case
Txt_a__b == << "a", " ", " ", "b" >>        \* "a  b": "a b" with a doubled space
Txt_c_d  == << "c", " ", "d" >>             \* "c d": unrelated text
Txt_ab   == << "a", "b" >>                  \* "ab": shorter than 3 characters
Txt_empty == << >>                           \* ""

\* str.lower() on the model's alphabet.
LowerChar(c) == IF c = "A" THEN "a" ELSE c

Lower(s) == [i \in 1..Len(s) |-> LowerChar(s[i])]

\* Whitespace of the model's alphabet (str.strip() and the regex class \s): the
\* space and the tab.
Tab == "\t"
IsSpace(c) == c \in {" ", Tab}

\* str.strip(): leading and trailing whitespace removed.
RECURSIVE LStrip(_)
LStrip(s) == IF s # << >> /\ IsSpace(Head(s)) THEN LStrip(Tail(s)) ELSE s

RECURSIVE RStrip(_)
RStrip(s) ==
    IF s # << >> /\ IsSpace(s[Len(s)]) THEN RStrip(SubSeq(s, 1, Len(s) - 1)) ELSE s

Strip(s) == RStrip(LStrip(s))

\* re.sub(r'\s+', ' ', s): every run of whitespace becomes one space.
RECURSIVE CollapseWhitespace(_)
CollapseWhitespace(s) ==
    IF s = << >> THEN s
    ELSE IF IsSpace(s[1])
    THEN IF Len(s) >= 2 /\ IsSpace(s[2])
         THEN CollapseWhitespace(Tail(s))
         ELSE << " " >> \o CollapseWhitespace(Tail(s))
    ELSE << s[1] >> \o CollapseWhitespace(Tail(s))

\* hashlib.sha256(...).hexdigest(): 64 hexadecimal digits, never the empty
\* string.  SHA-256 is modelled as injective: the digest of a text is the text
\* behind a mark.
Sha256(text) == << "#" >> \o text

\* memory_utils.py:13-38. get_content_hash: "" for empty content, else the
\* SHA-256 of the normalized text.
get_content_hash(content) ==
    IF content = << >> THEN << >> ELSE Sha256(CollapseWhitespace(Strip(Lower(content))))

\* background_jobs.py:608-657. _validate_memory_content.  The model's alphabet
\* has no brace, quote, pipe or underscore and spells none of the keywords, so
\* of its rules only the first (620-621) can reject a content of the model.
validate_memory_content(content) ==
    ~(content = << >> \/ Len(Strip(content)) < 3)

\* An extracted record (llm_service.py:284-289), entities left out.
Record(content, category, importance) ==
    [content |-> content, category |-> category, importance |-> importance]

\* The records a batch is made of.  Against the existing "a b" (factual, 3)
\* they give an importance difference of exactly 2, one of 3 under another case,
\* and another category under another spacing; against the existing "c d"
\* (preference, 8) another category alone.
Candidates ==
    { Record(Txt_a_b, "factual", 5),
      Record(Txt_A_b, "factual", 6),
      Record(Txt_a__b, "preference", 8),
      Record(Txt_c_d, "factual", 8),
      Record(Txt_ab, "factual", 5),
      Record(Txt_empty, "factual", 5) }

Batches == UNION { [1..n -> Candidates] : n \in 0..MaxBatch }

\* A memory as search_memories returns it after fetching its details
\* (openmemory_client.py:199-207): id, content, and the metadata written by
\* prepare_memory_for_storage (memory_utils.py:123-135); reinforced counts the
\* successful reinforce calls.
StoredMemory(id, content, category, importance) ==
    [ id |-> id, content |-> content, category |-> category, importance |-> importance,
      content_hash |-> get_content_hash(content), reinforced |-> 0 ]

\* openmemory_client.py:195-198. A query result that carries no id is returned as
\* it is: without id (0) and without metadata (the defaults of
\* background_jobs.py:383-384 for category and importance, no content_hash).
QueryOnlyMemory(content) ==
    [ id |-> 0, content |-> content, category |-> "", importance |-> 0,
      content_hash |-> << >>, reinforced |-> 0 ]

\* Python's None where a memory is expected.
NoneMemory ==
    [ id |-> -1, content |-> << >>, category |-> "", importance |-> 0,
      content_hash |-> << >>, reinforced |-> 0 ]

\* What the store may hold for the caller and agent before the batch.
ExistingCandidates ==
    { [content |-> Txt_a_b, category |-> "factual", importance |-> 3, has_id |-> TRUE],
      [content |-> Txt_a_b, category |-> "factual", importance |-> 3, has_id |-> FALSE],
      [content |-> Txt_c_d, category |-> "preference", importance |-> 8, has_id |-> TRUE] }

MakeStore(seq) ==
    [ i \in 1..Len(seq) |->
        IF seq[i].has_id
        THEN StoredMemory(i, seq[i].content, seq[i].category, seq[i].importance)
        ELSE QueryOnlyMemory(seq[i].content) ]

InitialStores ==
    { MakeStore(seq) : seq \in UNION { [1..n -> ExistingCandidates] : n \in 0..MaxExisting } }

\* Scores (in hundredths) a semantic hit may carry: below and at the threshold.
Scores == {80, 85}

\* What one semantic search (limit=1) may answer: nothing, or any memory of
\* the store as top hit with some score.
SemanticResults(st) ==
    { [hit |-> FALSE, index |-> 0, score |-> 0] }
    \cup { [hit |-> TRUE, index |-> i, score |-> sc] : i \in 1..Len(st), sc \in Scores }

\* The answers of the two searches of one find_similar_memory call: the hash
\* search answers truly ("ok") or with nothing (search_memories returns [] on any
\* error, openmemory_client.py:229-231).
FindAnswers(st) ==
    [ hash_search : {"ok", "empty"}, semantic : SemanticResults(st) ]

\* The memories of `st` whose content_hash metadata equals `hash`, in order.
ByHash(st, hash) == SelectSeq(st, LAMBDA m : m.content_hash = hash)

\* Mutant of find_similar_memory: a score equal to the threshold is too low.
find_similar_memory_above(st, hash, answers) ==
    LET hash_memories == IF answers.hash_search = "ok" THEN ByHash(st, hash) ELSE << >>
    IN  IF hash_memories # << >> THEN hash_memories[1]
        ELSE IF answers.semantic.hit /\ answers.semantic.score > memory_similarity_threshold
             THEN st[answers.semantic.index]
             ELSE NoneMemory

\* openmemory_client.py:536-607. find_similar_memory: the first hash match if
\* any, else the top semantic hit if its score >= the threshold, else None.
find_similar_memory(st, hash, answers) ==
    LET hash_memories == IF answers.hash_search = "ok" THEN ByHash(st, hash) ELSE << >>
    IN  IF hash_memories # << >> THEN hash_memories[1]
        ELSE IF answers.semantic.hit /\ answers.semantic.score >= memory_similarity_threshold
             THEN st[answers.semantic.index]
             ELSE NoneMemory

\* openmemory_client.py:634-640. The distinct content hashes of the records with
\* non-empty content, in order of first appearance (dict insertion order).
RECURSIVE HashOrder(_, _)
HashOrder(mems, seen) ==
    IF mems = << >> THEN << >>
    ELSE LET h == get_content_hash(Head(mems).content)
         IN  IF Head(mems).content = << >> \/ h \in seen
             THEN HashOrder(Tail(mems), seen)
             ELSE << h >> \o HashOrder(Tail(mems), seen \cup {h})

\* Mutant of ExistingByHash: the hash index matches nothing.
ExistingByHash_NoMatch(all_existing, hash) == NoneMemory

\* openmemory_client.py:651-658. existing_by_hash: the last existing memory
\* with the hash (later entries overwrite), None when there is none.
ExistingByHash(all_existing, hash) ==
    LET hits == ByHash(all_existing, hash)
    IN  IF hash # << >> /\ hits # << >> THEN hits[Len(hits)] ELSE NoneMemory

\* No _with_retry call has been made for the current record.
NoRetry ==
    [ op |-> "none", branch |-> "none", memory_id |-> 0,
      calls |-> << >>, delays |-> << >>, state |-> "idle" ]

\* background_jobs.py:318-320. The routine's locals before the lookup, for
\* one batch, one store content, and a store that is up or not.
BatchInit ==
    /\ memories \in Batches
    /\ store \in InitialStores
    /\ store_up \in BOOLEAN
    /\ similar_memories_map = << >>
    /\ pending_hashes = << >>
    /\ bpc = "lookup"
    /\ idx = 1
    /\ retry = NoRetry
    /\ stored_memory_ids = << >>
    /\ reinforced_memory_ids = << >>
    /\ failed_memories = << >>
    /\ record_log = << >>
    /\ lookup = "none"

\* The routine is not running (the job-level specifications).
BatchIdle ==
    /\ memories = << >>
    /\ store = << >>
    /\ store_up = TRUE
    /\ similar_memories_map = << >>
    /\ pending_hashes = << >>
    /\ bpc = "idle"
    /\ idx = 1
    /\ retry = NoRetry
    /\ stored_memory_ids = << >>
    /\ reinforced_memory_ids = << >>
    /\ failed_memories = << >>
    /\ record_log = << >>
    /\ lookup = "none"

\* No call of find_similar_memory is being looked at.
FindIdle ==
    find_call = [ pc |-> "idle", st |-> << >>, hash |-> << >>,
                  answers |-> [ hash_search |-> "ok",
                                semantic |-> [hit |-> FALSE, index |-> 0, score |-> 0] ],
                  result |-> NoneMemory ]

\* memory_cache.py:27-37, 181-186. The cache as constructed: empty, and
\* _last_cleanup is the time of construction.
NoCacheCall ==
    [ op |-> "none", caller_id |-> << >>, agent_id |-> NoAgent,
      returned |-> NoEntry, removed |-> {} ]

CacheIdle ==
    /\ cache = EmptyCache
    /\ now = 0
    /\ last_cleanup = 0
    /\ last_op = NoCacheCall
    /\ set_ttl = [k \in CacheKeys |-> NoTtl]

\* No function is being looked at alone.
CallIdle == call = [ fn |-> "none" ]

\* Everything is as constructed but the function looked at alone.
RestIdle == JobInit /\ BatchIdle /\ FindIdle /\ CacheIdle

Init == JobInit /\ BatchIdle /\ FindIdle /\ CacheIdle /\ CallIdle

\* Mutant of batch_find_similar_memories: Step 5 searches for every hash.
batch_find_similar_memories_searches_all ==
    /\ bpc = "lookup"
    /\ \E outcome \in {"ok", "empty", "raised"} :
         LET all_existing == IF outcome = "ok" THEN store ELSE << >>
             order == HashOrder(memories, {})
             hashes == { order[i] : i \in 1..Len(order) }
             results == [h \in hashes |-> ExistingByHash(all_existing, h)]
             all_none == [h \in { get_content_hash(memories[i].content) :
                                     i \in 1..Len(memories) } |-> NoneMemory]
             todo == order
         IN  /\ lookup' = outcome
             /\ IF outcome = "raised"
                THEN /\ similar_memories_map' = all_none
                     /\ pending_hashes' = << >>
                     /\ bpc' = "next"
                ELSE /\ similar_memories_map' = results
                     /\ pending_hashes' = todo
                     /\ bpc' = IF todo = << >> THEN "next" ELSE "semantic"
    /\ UNCHANGED << memories, store, store_up, idx, retry, stored_memory_ids,
                    reinforced_memory_ids, failed_memories, record_log, nonBatchVars >>

\* openmemory_client.py:633-668, 686-689. batch_find_similar_memories up to
\* Step 4: the search for all existing memories answers truly, or with nothing
\* (search_memories swallows its errors), or the body raises and the handler
\* returns None for the hash of every record.
batch_find_similar_memories ==
    /\ bpc = "lookup"
    /\ \E outcome \in {"ok", "empty", "raised"} :
         LET all_existing == IF outcome = "ok" THEN store ELSE << >>
             order == HashOrder(memories, {})
             hashes == { order[i] : i \in 1..Len(order) }
             results == [h \in hashes |-> ExistingByHash(all_existing, h)]
             all_none == [h \in { get_content_hash(memories[i].content) :
                                     i \in 1..Len(memories) } |-> NoneMemory]
             todo == SelectSeq(order, LAMBDA h : results[h] = NoneMemory)
         IN  /\ lookup' = outcome
             /\ IF outcome = "raised"
                THEN /\ similar_memories_map' = all_none
                     /\ pending_hashes' = << >>
                     /\ bpc' = "next"
                ELSE /\ similar_memories_map' = results
                     /\ pending_hashes' = todo
                     /\ bpc' = IF todo = << >> THEN "next" ELSE "semantic"
    /\ UNCHANGED << memories, store, store_up, idx, retry, stored_memory_ids,
                    reinforced_memory_ids, failed_memories, record_log, nonBatchVars >>

\* openmemory_client.py:670-682. Step 5, one hash without a hash match: the
\* individual find_similar_memory call.
batch_semantic_search ==
    /\ bpc = "semantic"
    /\ pending_hashes # << >>
    /\ \E answers \in FindAnswers(store) :
         similar_memories_map' =
             [similar_memories_map EXCEPT ![Head(pending_hashes)] =
                 find_similar_memory(store, Head(pending_hashes), answers)]
    /\ pending_hashes' = Tail(pending_hashes)
    /\ bpc' = IF Tail(pending_hashes) = << >> THEN "next" ELSE "semantic"
    /\ UNCHANGED << lookup, memories, store, store_up, idx, retry, stored_memory_ids,
                    reinforced_memory_ids, failed_memories, record_log, nonBatchVars >>

\* background_jobs.py:479-489. The parameters of _store_memory_with_retry; none
\* has a default.
StoreWithRetryParams ==
    { "caller_id", "agent_id", "conversation_id", "content", "category", "sector",
      "importance", "entities" }

\* background_jobs.py:398-407. The keyword arguments of the conflict branch's call.
ConflictCallArgs ==
    { "caller_id", "agent_id", "conversation_id", "content", "category", "sector",
      "importance", "entities" }

\* background_jobs.py:431-439. The keyword arguments of the new-memory branch's call.
NewCallArgs ==
    { "caller_id", "agent_id", "conversation_id", "content", "category",
      "importance", "entities" }

\* Python binds a call when every parameter without default is given and no
\* unknown keyword is passed; otherwise the call raises TypeError before the
\* body runs.
CallBinds(args) == args = StoreWithRetryParams

MissingSector == "_store_memory_with_retry() missing 1 required positional argument: 'sector'"

Abs(n) == IF n < 0 THEN -n ELSE n

\* Mutant of is_conflict: an importance difference of 2 already conflicts.
is_conflict_from_two(similar_memory, memory) ==
    /\ Lower(similar_memory.content) = Lower(memory.content)
    /\ \/ similar_memory.category # memory.category
       \/ Abs(similar_memory.importance - memory.importance) >= 2

\* Mutant of is_conflict: the category is not compared.
is_conflict_ignores_category(similar_memory, memory) ==
    /\ Lower(similar_memory.content) = Lower(memory.content)
    /\ Abs(similar_memory.importance - memory.importance) > 2

\* background_jobs.py:386-389. is_conflict.
is_conflict(similar_memory, memory) ==
    /\ Lower(similar_memory.content) = Lower(memory.content)
    /\ \/ similar_memory.category # memory.category
       \/ Abs(similar_memory.importance - memory.importance) > 2

\* background_jobs.py:366-378. The similar memory of the current record: the
\* batch result for its hash, or the individual check when the map has no
\* entry for the hash.
SimilarMemory(memory, answers) ==
    LET content_hash == get_content_hash(memory.content)
    IN  IF content_hash \in DOMAIN similar_memories_map
        THEN similar_memories_map[content_hash]
        ELSE find_similar_memory(store, content_hash, answers)

\* background_jobs.py:370. The individual check is made, and the store
\* answers it, only when the map has no entry for the record's hash.
IndividualCheckAnswers(memory) ==
    IF get_content_hash(memory.content) \in DOMAIN similar_memories_map
    THEN { [ hash_search |-> "ok", semantic |-> [hit |-> FALSE, index |-> 0, score |-> 0] ] }
    ELSE FindAnswers(store)

\* The record of the running iteration passed the checks of 349-363.
AtValidRecord ==
    /\ bpc = "next"
    /\ idx <= Len(memories)
    /\ memories[idx].content # << >>
    /\ validate_memory_content(memories[idx].content)

RecordLog(branch, outcome) == [idx |-> idx, branch |-> branch, result |-> outcome]

\* Mutant of on_record_exception: the handler records nothing.
on_record_exception_silent(failed, memory, e) == failed

\* background_jobs.py:450-456. `except Exception as e` of the per-record try.
on_record_exception(failed, memory, e) ==
    Append(failed, [memory |-> memory, error |-> e])

\* Starting a _with_retry call for the current record.
BeginRetry(op, branch, memory_id) ==
    [ op |-> op, branch |-> branch, memory_id |-> memory_id,
      calls |-> << >>, delays |-> << >>, state |-> "running" ]

\* background_jobs.py:349-351. Empty content: the record is skipped.
record_skip_empty ==
    /\ bpc = "next"
    /\ idx <= Len(memories)
    /\ memories[idx].content = << >>
    /\ record_log' = Append(record_log, RecordLog("empty", "skipped"))
    /\ idx' = idx + 1
    /\ retry' = NoRetry
    /\ UNCHANGED << lookup, memories, store, store_up, similar_memories_map, pending_hashes, bpc,
                    stored_memory_ids, reinforced_memory_ids, failed_memories, nonBatchVars >>

\* background_jobs.py:354-363. Content validation fails: recorded as failed.
record_invalid ==
    /\ bpc = "next"
    /\ idx <= Len(memories)
    /\ memories[idx].content # << >>
    /\ ~validate_memory_content(memories[idx].content)
    /\ failed_memories' =
           Append(failed_memories,
                  [ memory |-> memories[idx],
                    error |-> "Content validation failed - system/config content detected" ])
    /\ record_log' = Append(record_log, RecordLog("invalid", "failed"))
    /\ idx' = idx + 1
    /\ retry' = NoRetry
    /\ UNCHANGED << lookup, memories, store, store_up, similar_memories_map, pending_hashes, bpc,
                    stored_memory_ids, reinforced_memory_ids, nonBatchVars >>

\* background_jobs.py:380-407. A similar memory that conflicts: the record is
\* stored as a new memory through _store_memory_with_retry.
record_conflict ==
    /\ AtValidRecord
    /\ \E answers \in IndividualCheckAnswers(memories[idx]) :
         LET similar_memory == SimilarMemory(memories[idx], answers)
         IN  /\ similar_memory # NoneMemory
             /\ is_conflict(similar_memory, memories[idx])
    /\ IF CallBinds(ConflictCallArgs)
       THEN /\ retry' = BeginRetry("store", "conflict", 0)
            /\ bpc' = "store"
            /\ UNCHANGED << idx, failed_memories, record_log >>
       ELSE /\ failed_memories' =
                   on_record_exception(failed_memories, memories[idx], MissingSector)
            /\ record_log' = Append(record_log, RecordLog("conflict", "failed"))
            /\ idx' = idx + 1
            /\ retry' = NoRetry
            /\ UNCHANGED bpc
    /\ UNCHANGED << lookup, memories, store, store_up, similar_memories_map, pending_hashes,
                    stored_memory_ids, reinforced_memory_ids, nonBatchVars >>

\* background_jobs.py:416-420. A similar memory without conflict that carries an
\* id: it is reinforced through _reinforce_memory_with_retry.
record_reinforce ==
    /\ AtValidRecord
    /\ \E answers \in IndividualCheckAnswers(memories[idx]) :
         LET similar_memory == SimilarMemory(memories[idx], answers)
         IN  /\ similar_memory # NoneMemory
             /\ ~is_conflict(similar_memory, memories[idx])
             /\ similar_memory.id # 0
             /\ retry' = BeginRetry("reinforce", "reinforce", similar_memory.id)
    /\ bpc' = "reinforce"
    /\ UNCHANGED << lookup, memories, store, store_up, similar_memories_map, pending_hashes, idx,
                    stored_memory_ids, reinforced_memory_ids, failed_memories,
                    record_log, nonBatchVars >>

\* background_jobs.py:418-419. A similar memory without conflict and without id:
\* `if memory_id:` has no else; nothing is appended to any list.
record_no_id ==
    /\ AtValidRecord
    /\ \E answers \in IndividualCheckAnswers(memories[idx]) :
         LET similar_memory == SimilarMemory(memories[idx], answers)
         IN  /\ similar_memory # NoneMemory
             /\ ~is_conflict(similar_memory, memories[idx])
             /\ similar_memory.id = 0
    /\ record_log' = Append(record_log, RecordLog("no_id", "dropped"))
    /\ idx' = idx + 1
    /\ retry' = NoRetry
    /\ UNCHANGED << lookup, memories, store, store_up, similar_memories_map, pending_hashes, bpc,
                    stored_memory_ids, reinforced_memory_ids, failed_memories, nonBatchVars >>

\* background_jobs.py:429-456. No similar memory: the call of 431-439 is made.
\* It passes no `sector`, which _store_memory_with_retry requires (479-489), so
\* the call raises TypeError and the handler of 450-456 records the failure.
record_new ==
    /\ AtValidRecord
    /\ \E answers \in IndividualCheckAnswers(memories[idx]) :
         SimilarMemory(memories[idx], answers) = NoneMemory
    /\ IF CallBinds(NewCallArgs)
       THEN /\ retry' = BeginRetry("store", "new", 0)
            /\ bpc' = "store"
            /\ UNCHANGED << idx, failed_memories, record_log >>
       ELSE /\ failed_memories' =
                   on_record_exception(failed_memories, memories[idx], MissingSector)
            /\ record_log' = Append(record_log, RecordLog("new", "failed"))
            /\ idx' = idx + 1
            /\ retry' = NoRetry
            /\ UNCHANGED bpc
    /\ UNCHANGED << lookup, memories, store, store_up, similar_memories_map, pending_hashes,
                    stored_memory_ids, reinforced_memory_ids, nonBatchVars >>

\* Mutant of RetryRange: the loop runs one more time.
RetryRange_OneMore(max_attempts) == 0..max_attempts

\* background_jobs.py:511, 572. `for attempt in range(max_attempts)`.
RetryRange(max_attempts) == 0..(max_attempts - 1)

\* Mutant of BackoffDelay: the exponent is the 1-based attempt number.
BackoffDelay_one_step_ahead(initial_delay, attempt) == initial_delay * (2 ^ (attempt + 1))

\* background_jobs.py:533, 542, 585, 594. delay = initial_delay * (2 ** attempt).
BackoffDelay(initial_delay, attempt) == initial_delay * (2 ^ attempt)

\* What one call of store_caller_memory / reinforce_memory may do: succeed,
\* return a non-success value (None / False), or raise.  A store that accepts
\* every write only succeeds.
CallOutcomes == IF store_up THEN {"ok"} ELSE {"ok", "nonsuccess", "raise"}

\* background_jobs.py:530-552, 582-604. A failed attempt (0-based `attempt`) of
\* a _with_retry loop: sleeps unless it was the last of max_attempts, and
\* the loop ends when the range is used up.
FailedAttempt(r, outcome) ==
    LET attempt == Len(r.calls)
        max_attempts == memory_storage_retry_attempts
        slept == IF attempt < max_attempts - 1
                 THEN Append(r.delays,
                             BackoffDelay(memory_storage_retry_delay_seconds, attempt))
                 ELSE r.delays
    IN  [ r EXCEPT !.calls = Append(@, outcome),
                   !.delays = slept,
                   !.state = IF attempt + 1 \in RetryRange(max_attempts)
                             THEN "running" ELSE "exhausted" ]

\* background_jobs.py:524-529, 576-581. A successful attempt returns at once.
SucceededAttempt(r) == [ r EXCEPT !.calls = Append(@, "ok"), !.state = "success" ]

\* background_jobs.py:412-415, 445-448. The reason recorded when the store
\* call of a branch returned None.
StoreFailureReason(branch) ==
    IF branch = "conflict" THEN "Failed to store conflicting memory after retries"
    ELSE "Failed to store memory after retries"

\* The id the store gives a new memory.
NewMemoryId == Len(store) + 1

\* background_jobs.py:508-554 with 408-415 / 441-448. One attempt of
\* _store_memory_with_retry, and, when the call returns, the caller's
\* bookkeeping for the record.
store_memory_attempt ==
    /\ bpc = "store"
    /\ retry.state = "running"
    /\ \E outcome \in CallOutcomes :
         IF outcome = "ok"
         THEN /\ retry' = SucceededAttempt(retry)
              /\ store' = Append(store,
                                 StoredMemory(NewMemoryId, memories[idx].content,
                                              memories[idx].category,
                                              memories[idx].importance))
              /\ stored_memory_ids' = Append(stored_memory_ids, NewMemoryId)
              /\ record_log' = Append(record_log, RecordLog(retry.branch, "stored"))
              /\ idx' = idx + 1
              /\ bpc' = "next"
              /\ UNCHANGED failed_memories
         ELSE /\ retry' = FailedAttempt(retry, outcome)
              /\ IF retry'.state = "exhausted"
                 THEN /\ failed_memories' =
                             Append(failed_memories,
                                    [ memory |-> memories[idx],
                                      error |-> StoreFailureReason(retry.branch) ])
                      /\ record_log' = Append(record_log, RecordLog(retry.branch, "failed"))
                      /\ idx' = idx + 1
                      /\ bpc' = "next"
                 ELSE UNCHANGED << failed_memories, record_log, idx, bpc >>
              /\ UNCHANGED << store, stored_memory_ids >>
    /\ UNCHANGED << lookup, memories, store_up, similar_memories_map, pending_hashes,
                    reinforced_memory_ids, nonBatchVars >>

\* background_jobs.py:569-606 with 420-428. One attempt of
\* _reinforce_memory_with_retry, and the caller's bookkeeping on return.
reinforce_memory_attempt ==
    /\ bpc = "reinforce"
    /\ retry.state = "running"
    /\ \E outcome \in CallOutcomes :
         IF outcome = "ok"
         THEN /\ retry' = SucceededAttempt(retry)
              /\ store' = [ i \in 1..Len(store) |->
                              IF store[i].id = retry.memory_id
                              THEN [store[i] EXCEPT !.reinforced = @ + 1]
                              ELSE store[i] ]
              /\ reinforced_memory_ids' = Append(reinforced_memory_ids, retry.memory_id)
              /\ record_log' = Append(record_log, RecordLog("reinforce", "reinforced"))
              /\ idx' = idx + 1
              /\ bpc' = "next"
              /\ UNCHANGED failed_memories
         ELSE /\ retry' = FailedAttempt(retry, outcome)
              /\ IF retry'.state = "exhausted"
                 THEN /\ failed_memories' =
                             Append(failed_memories,
                                    [ memory |-> memories[idx],
                                      error |-> "Failed to reinforce memory after retries" ])
                      /\ record_log' = Append(record_log, RecordLog("reinforce", "failed"))
                      /\ idx' = idx + 1
                      /\ bpc' = "next"
                 ELSE UNCHANGED << failed_memories, record_log, idx, bpc >>
              /\ UNCHANGED << store, reinforced_memory_ids >>
    /\ UNCHANGED << lookup, memories, store_up, similar_memories_map, pending_hashes,
                    stored_memory_ids, nonBatchVars >>

\* background_jobs.py:458-477. The loop is over: the result is built and returned.
batch_return ==
    /\ bpc = "next"
    /\ idx > Len(memories)
    /\ bpc' = "done"
    /\ UNCHANGED << lookup, memories, store, store_up, similar_memories_map, pending_hashes, idx,
                    retry, stored_memory_ids, reinforced_memory_ids, failed_memories,
                    record_log, nonBatchVars >>

\* background_jobs.py:458-468. The returned dictionary.
BatchResult ==
    [ stored |-> stored_memory_ids,
      reinforced |-> reinforced_memory_ids,
      failed |-> failed_memories,
      stats |-> [ stored_count |-> Len(stored_memory_ids),
                  reinforced_count |-> Len(reinforced_memory_ids),
                  failed_count |-> Len(failed_memories),
                  total_count |-> Len(memories) ] ]

BatchNext ==
    \/ batch_find_similar_memories
    \/ batch_semantic_search
    \/ record_skip_empty
    \/ record_invalid
    \/ record_conflict
    \/ record_reinforce
    \/ record_no_id
    \/ record_new
    \/ store_memory_attempt
    \/ reinforce_memory_attempt
    \/ batch_return

\* One run of _store_memories_with_deduplication; the processor is left alone.
InitBatch == JobInit /\ BatchInit /\ FindIdle /\ CacheIdle /\ CallIdle

SpecBatch == InitBatch /\ [][BatchNext]_vars

\* ---------------------------------------------- find_similar_memory alone
\* The content hashes a call may be made for: those of the candidates.
CandidateHashes ==
    { get_content_hash(r.content) : r \in { c \in Candidates : c.content # << >> } }

\* openmemory_client.py:536-543. A call of find_similar_memory about to be made:
\* any store, any candidate hash, any answers of the two searches.
InitFind ==
    /\ JobInit
    /\ BatchIdle
    /\ CacheIdle
    /\ CallIdle
    /\ \E st \in InitialStores, h \in CandidateHashes :
         \E a \in FindAnswers(st) :
            find_call = [ pc |-> "called", st |-> st, hash |-> h, answers |-> a,
                          result |-> NoneMemory ]

\* openmemory_client.py:560-607. The call runs and returns.
find_similar_memory_call ==
    /\ find_call.pc = "called"
    /\ find_call' = [ find_call EXCEPT
                        !.pc = "returned",
                        !.result = find_similar_memory(find_call.st, find_call.hash,
                                                       find_call.answers) ]
    /\ UNCHANGED << jobVars, batchVars, cacheVars, callVars >>

NextFind == find_similar_memory_call

SpecFind == InitFind /\ [][NextFind]_vars

\* ------------------------------------------------------ MemoryCache alone
\* The calls of the cache's public interface, one at a time, and the clock.
MemoryLists == { << "m1" >> }
\* The ttl arguments of set: left out, or one second.
TtlArgs == {NoTtl, 1}

CacheCall(op, caller_id, agent_id, returned, removed) ==
    [ op |-> op, caller_id |-> caller_id, agent_id |-> agent_id,
      returned |-> returned, removed |-> removed ]

\* memory_cache.py:85, 117  self._cleanup_expired() at the head of get and set
AfterCleanup == cleanup_expired(cache, now, last_cleanup)
CleanupTime == IF cleanup_due(now, last_cleanup) THEN now ELSE last_cleanup

\* memory_cache.py:70-99  get: None for a missing key; an expired entry is
\* deleted and None returned; otherwise the entry's memories
cache_get(caller_id, agent_id) ==
    LET cache_key == get_cache_key(caller_id, agent_id)
        entry == AfterCleanup[cache_key]
    IN  /\ last_cleanup' = CleanupTime
        /\ IF entry = NoEntry
           THEN /\ cache' = AfterCleanup
                /\ last_op' = CacheCall("get", caller_id, agent_id, NoEntry, {})
           ELSE IF is_expired(entry, now)
           THEN /\ cache' = [AfterCleanup EXCEPT ![cache_key] = NoEntry]
                /\ last_op' = CacheCall("get", caller_id, agent_id, NoEntry, {cache_key})
           ELSE /\ cache' = AfterCleanup
                /\ last_op' = CacheCall("get", caller_id, agent_id, entry, {})
        /\ set_ttl' = TtlGiven(cache', set_ttl)
        /\ UNCHANGED << now, jobVars, batchVars, findVars, callVars >>

\* memory_cache.py:101-127  set: the entry is written with the current time and
\* ttl or self.default_ttl
cache_set(caller_id, agent_id, mems, ttl) ==
    LET cache_key == get_cache_key(caller_id, agent_id)
        entry == [ memories |-> mems, timestamp |-> now,
                   ttl |-> IF ttl = NoTtl \/ ttl = 0 THEN default_ttl ELSE ttl ]
    IN  /\ Cardinality(Present(AfterCleanup) \cup {cache_key}) <= MaxEntries
        /\ last_cleanup' = CleanupTime
        /\ cache' = [AfterCleanup EXCEPT ![cache_key] = entry]
        /\ last_op' = CacheCall("set", caller_id, agent_id, NoEntry, {})
        /\ set_ttl' = TtlGiven(cache', [set_ttl EXCEPT ![cache_key] = ttl])
        /\ UNCHANGED << now, jobVars, batchVars, findVars, callVars >>

\* memory_cache.py:129-152  invalidate, called by a client of the cache
cache_invalidate(caller_id, agent_id) ==
    /\ cache' = invalidate(cache, caller_id, agent_id)
    /\ last_op' = CacheCall("invalidate", caller_id, agent_id, NoEntry,
                            Present(cache) \ Present(cache'))
    /\ set_ttl' = TtlGiven(cache', set_ttl)
    /\ UNCHANGED << now, last_cleanup, jobVars, batchVars, findVars, callVars >>

\* memory_cache.py:154-158  clear
cache_clear ==
    /\ cache' = EmptyCache
    /\ last_op' = CacheCall("clear", << >>, NoAgent, NoEntry, Present(cache))
    /\ set_ttl' = TtlGiven(cache', set_ttl)
    /\ UNCHANGED << now, last_cleanup, jobVars, batchVars, findVars, callVars >>

\* time.time() moves on between two calls: by a second, or by a cleanup
\* interval; the clock is followed for one cleanup interval and a few seconds.
Horizon == cleanup_interval + MaxSmallTicks

cache_tick ==
    /\ \/ /\ now % cleanup_interval < MaxSmallTicks
          /\ now' = now + 1
       \/ /\ now + cleanup_interval <= Horizon
          /\ now' = now + cleanup_interval
    /\ last_op' = NoCacheCall
    /\ UNCHANGED << cache, last_cleanup, set_ttl, jobVars, batchVars, findVars, callVars >>

InitCache == JobInit /\ BatchIdle /\ FindIdle /\ CacheIdle /\ CallIdle

NextCache ==
    \/ \E a \in CacheArgs : cache_get(a[1], a[2])
    \/ \E a \in CacheArgs, m \in MemoryLists, ttl \in TtlArgs : cache_set(a[1], a[2], m, ttl)
    \/ \E a \in CacheArgs : cache_invalidate(a[1], a[2])
    \/ cache_clear
    \/ cache_tick

SpecCache == InitCache /\ [][NextCache]_vars

\* ------------------------------------------- MemoryCache, zero ttl included
\* The same calls, set being called with a ttl of zero seconds as well.
ExplicitTtlArgs == TtlArgs \cup {0}

NextTtl ==
    \/ \E a \in CacheArgs : cache_get(a[1], a[2])
    \/ \E a \in CacheArgs, m \in MemoryLists, ttl \in ExplicitTtlArgs :
          cache_set(a[1], a[2], m, ttl)
    \/ \E a \in CacheArgs : cache_invalidate(a[1], a[2])
    \/ cache_clear
    \/ cache_tick

SpecTtl == InitCache /\ [][NextTtl]_vars

\* ------------------------------------------- one job and the cache's clients
\* background_jobs.py:94-97. The processor has been started and its worker has
\* taken the first job from the queue; the cache is as constructed.
InitJobCache ==
    /\ queue = << >>
    /\ running = TRUE
    /\ worker_thread = 1
    /\ mainpc = "idle"
    /\ wpc = [t \in Threads |-> IF t = 1 THEN "attempt" ELSE "none"]
    /\ wjob = [t \in Threads |-> IF t = 1 THEN 1 ELSE 0]
    /\ wattempt = [t \in Threads |-> 0]
    /\ \E tr \in Transcripts : jobTranscript = [j \in JobIds |-> IF j = 1 THEN tr ELSE << >>]
    /\ jobState = [j \in JobIds |-> IF j = 1 THEN "Processing" ELSE "New"]
    /\ jobLog = [j \in JobIds |-> << >>]
    /\ sleeps = [j \in JobIds |-> << >>]
    /\ timer = [t \in Threads |-> 0]
    /\ artifacts = [j \in JobIds |-> NoArtifact]
    /\ saveRaised = [j \in JobIds |-> FALSE]
    /\ arrivals = << 1 >>
    /\ dequeued = << 1 >>
    /\ BatchIdle
    /\ FindIdle
    /\ CacheIdle
    /\ CallIdle

\* The worker processes the job while clients of the cache fill it.
NextJobCache ==
    \/ \E t \in Threads : process_job(t)
    \/ \E a \in CacheArgs, m \in MemoryLists, ttl \in TtlArgs : cache_set(a[1], a[2], m, ttl)

SpecJobCache == InitJobCache /\ [][NextJobCache]_vars

\* ------------------------------------------------------ get_content_hash alone
\* The contents a call may be made for: every text of at most MaxText
\* characters over a letter in both cases, the space and the tab.
HashAlphabet == { "a", "A", " ", Tab }
HashContents == UNION { [1..n -> HashAlphabet] : n \in 0..MaxText }

\* memory_utils.py:13. Two calls about to be made, each with a content.
InitHash ==
    /\ RestIdle
    /\ \E x \in HashContents, y \in HashContents :
         call = [ fn |-> "get_content_hash", pc |-> "called", args |-> << x, y >>,
                  result |-> << >> ]

\* memory_utils.py:13-38. The two calls run and return.
get_content_hash_call ==
    /\ call.fn = "get_content_hash"
    /\ call.pc = "called"
    /\ call' = [ call EXCEPT !.pc = "returned",
                             !.result = << get_content_hash(call.args[1]),
                                           get_content_hash(call.args[2]) >> ]
    /\ UNCHANGED << jobVars, batchVars, findVars, cacheVars >>

NextHash == get_content_hash_call

SpecHash == InitHash /\ [][NextHash]_vars

\* ------------------------------------------- _validate_memory_response alone
\* A value of the parsed model response: its Python type, its number if it is
\* one (True is 1, False is 0; a float is given by its integer part and is never
\* an int), its text if it is a string.
PyValue(t, n, txt) == [t |-> t, n |-> n, s |-> txt]
PyStr(txt) == PyValue("str", 0, txt)
PyInt(n) == PyValue("int", n, "")
PyBool(b) == PyValue("bool", IF b THEN 1 ELSE 0, "")
PyFloat(n) == PyValue("float", n, "")
PyList == PyValue("list", 0, "")
Missing == PyValue("missing", 0, "")      \* the key is not in the dict

\* isinstance(x, int): bool is a subclass of int.
IsInstanceInt(x) == x.t \in {"int", "bool"}

\* dict.get(key, default): the default only when the key is missing.
DictGet(value, default) == IF value = Missing THEN default ELSE value

\* bool(x) for the values of the model: "", 0, False are falsy.
Truthy(x) ==
    CASE x.t = "str" -> x.s # ""
      [] x.t \in {"int", "bool", "float"} -> x.n # 0
      [] x.t = "list" -> FALSE
      [] OTHER -> FALSE

\* llm_service.py:251
valid_categories == {"factual", "preference", "issue", "emotional", "relational"}

NotADict == [ is_dict |-> FALSE, content |-> Missing, category |-> Missing,
              importance |-> Missing, entities |-> Missing ]

\* The entries a raw list is made of.
RawEntries ==
    { NotADict } \cup
    [ is_dict : {TRUE},
      content : { Missing, PyStr(""), PyStr("x"), PyInt(7) },
      category : { Missing, PyStr("issue"), PyStr("bogus") },
      importance : { Missing, PyInt(0), PyInt(1), PyInt(10), PyInt(15), PyFloat(7),
                     PyBool(TRUE), PyBool(FALSE) },
      entities : { Missing, PyList, PyStr("x") } ]

RawLists == UNION { [1..n -> RawEntries] : n \in 0..MaxRaw }

\* llm_service.py:253-289. One turn of the loop: what it appends to `validated`
\* (nothing when it continues).
ValidateOne(memory) ==
    LET content == DictGet(memory.content, PyStr(""))
        category == DictGet(memory.category, PyStr("factual"))
        importance == DictGet(memory.importance, PyInt(5))
        entities == DictGet(memory.entities, PyList)
    IN  IF ~memory.is_dict THEN << >>
        ELSE IF ~Truthy(content) \/ content.t # "str" THEN << >>
        ELSE << [ content |-> content,
                  category |-> IF category.t = "str" /\ category.s \in valid_categories
                               THEN category ELSE PyStr("factual"),
                  importance |-> IF ~IsInstanceInt(importance) \/ importance.n < 1
                                    \/ importance.n > 10
                                 THEN PyInt(5) ELSE importance,
                  entities |-> IF entities.t # "list" THEN PyList ELSE entities ] >>

\* llm_service.py:235-295. _validate_memory_response: the loop over the list.
RECURSIVE validate_memory_response(_)
validate_memory_response(mems) ==
    IF mems = << >> THEN << >>
    ELSE ValidateOne(Head(mems)) \o validate_memory_response(Tail(mems))

InitValidate ==
    /\ RestIdle
    /\ \E raw \in RawLists :
         call = [ fn |-> "_validate_memory_response", pc |-> "called", args |-> raw,
                  result |-> << >> ]

validate_memory_response_call ==
    /\ call.fn = "_validate_memory_response"
    /\ call.pc = "called"
    /\ call' = [ call EXCEPT !.pc = "returned",
                             !.result = validate_memory_response(call.args) ]
    /\ UNCHANGED << jobVars, batchVars, findVars, cacheVars >>

NextValidate == validate_memory_response_call

SpecValidate == InitValidate /\ [][NextValidate]_vars

\* ------------------------------------------------------ _chunk_transcript alone
\* A message is given by its role and by the length in characters of the text
\* f"{role}: {message}" that the token estimates are taken from; in a chunk it
\* carries its position in the transcript.
ChunkRoles == {"user", "agent"}
TextLengths == {8, 20, 44}
ChunkTranscripts ==
    UNION { [1..n -> [role : ChunkRoles, chars : TextLengths]] : n \in 0..MaxMsgs }
MaxTokenArgs == {4, 10}
OverlapTokenArgs == {0, 2, 5}

\* llm_service.py:296-306  len(text) // 4
estimate_tokens(chars) == chars \div 4

MsgAt(transcript, k) ==
    [role |-> transcript[k].role, chars |-> transcript[k].chars, id |-> k]

\* A mutation of AllMessages: the messages in reverse order.
AllMessages_reversed(transcript) ==
    [k \in 1..Len(transcript) |-> MsgAt(transcript, Len(transcript) + 1 - k)]

AllMessages(transcript) == [k \in 1..Len(transcript) |-> MsgAt(transcript, k)]

RECURSIVE SumChars(_)
SumChars(msgs) == IF msgs = << >> THEN 0 ELSE Head(msgs).chars + SumChars(Tail(msgs))

\* llm_service.py:337-342  the estimate of the messages' texts joined by "\n"
total_tokens(transcript) ==
    IF transcript = << >> THEN 0
    ELSE estimate_tokens(SumChars(transcript) + Len(transcript) - 1)

\* A mutation of overlap_messages: the last message is carried over whether it
\* fits the budget or not.
overlap_messages_last_always(chunk, budget) ==
    IF chunk = << >> THEN << >> ELSE << chunk[Len(chunk)] >>

\* llm_service.py:393-404  the last messages of the chunk that fit, taken from
\* the end, within overlap_tokens
RECURSIVE overlap_messages(_, _)
overlap_messages(chunk, budget) ==
    IF chunk = << >> THEN << >>
    ELSE LET overlap_msg == chunk[Len(chunk)]
         IN  IF estimate_tokens(overlap_msg.chars) <= budget
             THEN overlap_messages(SubSeq(chunk, 1, Len(chunk) - 1),
                                   budget - estimate_tokens(overlap_msg.chars))
                      \o << overlap_msg >>
             ELSE << >>

RECURSIVE SumTokens(_)
SumTokens(msgs) ==
    IF msgs = << >> THEN 0 ELSE estimate_tokens(Head(msgs).chars) + SumTokens(Tail(msgs))

ChunkData(chunk, chunk_index, token_count) ==
    [chunk |-> chunk, chunk_index |-> chunk_index, token_count |-> token_count]

\* llm_service.py:308-314. A call about to be made.
InitChunk ==
    /\ RestIdle
    /\ \E tr \in ChunkTranscripts, mx \in MaxTokenArgs, ov \in OverlapTokenArgs :
         call = [ fn |-> "_chunk_transcript", pc |-> "called",
                  transcript |-> tr, max_tokens |-> mx, overlap_tokens |-> ov,
                  i |-> 1, current_chunk |-> << >>, current_tokens |-> 0,
                  chunks |-> << >>, result |-> << >> ]

\* llm_service.py:327-364. Empty transcript: []; estimate within max_tokens: the
\* transcript as one chunk; otherwise the loop starts.
chunk_begin ==
    /\ call.fn = "_chunk_transcript"
    /\ call.pc = "called"
    /\ call' =
         IF call.transcript = << >>
         THEN [call EXCEPT !.pc = "returned", !.result = << >>]
         ELSE IF total_tokens(call.transcript) <= call.max_tokens
         THEN [call EXCEPT !.pc = "returned",
                           !.result = << ChunkData(AllMessages(call.transcript), 0,
                                                   total_tokens(call.transcript)) >>]
         ELSE [call EXCEPT !.pc = "loop"]
    /\ UNCHANGED << jobVars, batchVars, findVars, cacheVars >>

\* llm_service.py:374-377  split_at: before a user message, after any other,
\* and at the message itself when it is the last
split_at(transcript, i) ==
    IF i < Len(transcript)
    THEN IF transcript[i].role = "user" THEN i ELSE i + 1
    ELSE i

\* llm_service.py:366-423. One turn of `while i < len(transcript)`.  A chunk is
\* appended to `chunks` as long as memory allows; beyond that the append raises
\* MemoryError.
chunk_loop ==
    /\ call.fn = "_chunk_transcript"
    /\ call.pc = "loop"
    /\ call.i <= Len(call.transcript)
    /\ LET msg == MsgAt(call.transcript, call.i)
           msg_tokens == estimate_tokens(msg.chars)
           overlap == overlap_messages(call.current_chunk, call.overlap_tokens)
           taken == split_at(call.transcript, call.i) > call.i
       IN  call' =
             IF call.current_tokens + msg_tokens > call.max_tokens /\ call.current_chunk # << >>
             THEN IF Len(call.chunks) >= MaxChunks
                  THEN [call EXCEPT !.pc = "raised"]
                  ELSE [call EXCEPT
                          !.chunks = Append(@, ChunkData(call.current_chunk, Len(call.chunks),
                                                         call.current_tokens)),
                          !.current_chunk = IF taken THEN Append(overlap, msg) ELSE overlap,
                          !.current_tokens = SumTokens(overlap)
                                               + (IF taken THEN msg_tokens ELSE 0),
                          !.i = IF taken THEN @ + 1 ELSE @]
             ELSE [call EXCEPT !.current_chunk = Append(@, msg),
                               !.current_tokens = @ + msg_tokens,
                               !.i = @ + 1]
    /\ UNCHANGED << jobVars, batchVars, findVars, cacheVars >>

\* llm_service.py:425-447. The loop is over: the final chunk, then the list.
chunk_end ==
    /\ call.fn = "_chunk_transcript"
    /\ call.pc = "loop"
    /\ call.i > Len(call.transcript)
    /\ call' = [call EXCEPT
                  !.pc = "returned",
                  !.result = IF call.current_chunk # << >>
                             THEN Append(call.chunks,
                                         ChunkData(call.current_chunk, Len(call.chunks),
                                                   call.current_tokens))
                             ELSE call.chunks]
    /\ UNCHANGED << jobVars, batchVars, findVars, cacheVars >>

NextChunk == chunk_begin \/ chunk_loop \/ chunk_end

SpecChunk == InitChunk /\ [][NextChunk]_vars

\* ------------------------------------------- extract_memories: the chunk loop
\* llm_service.py:64-70. chunk_data_list as _chunk_transcript returned it for a
\* filtered transcript that is not empty: at least one chunk.
ChunkCounts == 1..MaxChunks

\* What the steps inside the per-chunk try can do (llm_service.py:91-129): the
\* prompt construction, the validation or the privacy pass raises, or the chunk
\* yields its records (_extract_with_fallback catches the providers' errors and
\* returns [] then).
RaiseStages == {"prompt", "validate", "privacy"}
RecordsPerChunk == 0..2

\* The records of a chunk, named by the chunk and their rank.
ChunkMemories(chunk_index, count) == [j \in 1..count |-> << chunk_index, j >>]

InitExtract ==
    /\ RestIdle
    /\ \E n \in ChunkCounts :
         call = [ fn |-> "extract_memories", pc |-> "loop", total_chunks |-> n,
                  chunk_index |-> 0, outcomes |-> << >>, all_memories |-> << >>,
                  successful_chunks |-> 0, failed_chunks |-> << >>,
                  failed_count |-> 0, result |-> << >> ]

ExtractLooping ==
    /\ call.fn = "extract_memories"
    /\ call.pc = "loop"
    /\ call.chunk_index < call.total_chunks

\* llm_service.py:85-137. One chunk processed to the end of the try body.
chunk_succeeds ==
    /\ ExtractLooping
    /\ \E count \in RecordsPerChunk :
         call' = [call EXCEPT
                    !.all_memories = @ \o ChunkMemories(call.chunk_index, count),
                    !.successful_chunks = @ + 1,
                    !.outcomes = Append(@, [raised |-> FALSE, count |-> count]),
                    !.chunk_index = @ + 1]
    /\ UNCHANGED << jobVars, batchVars, findVars, cacheVars >>

\* A mutation of chunk_raises: the exception ends the extraction with no record.
chunk_raises_aborts ==
    /\ ExtractLooping
    /\ \E stage \in RaiseStages :
         call' = [call EXCEPT
                    !.outcomes = Append(@, [raised |-> TRUE, count |-> 0]),
                    !.pc = "returned",
                    !.result = << >>]
    /\ UNCHANGED << jobVars, batchVars, findVars, cacheVars >>

\* llm_service.py:139-151. A step of the try body raised: the handler records the
\* chunk as failed; nothing of the chunk has reached all_memories (the extend
\* at 131 comes after the privacy pass).
chunk_raises ==
    /\ ExtractLooping
    /\ \E stage \in RaiseStages :
         call' = [call EXCEPT
                    !.failed_chunks = Append(@, [chunk_index |-> call.chunk_index,
                                                 error |-> stage]),
                    !.failed_count = @ + 1,
                    !.outcomes = Append(@, [raised |-> TRUE, count |-> 0]),
                    !.chunk_index = @ + 1]
    /\ UNCHANGED << jobVars, batchVars, findVars, cacheVars >>

\* llm_service.py:153-166. After the last chunk: return all_memories.
extract_return ==
    /\ call.fn = "extract_memories"
    /\ call.pc = "loop"
    /\ call.chunk_index = call.total_chunks
    /\ call' = [call EXCEPT !.pc = "returned", !.result = call.all_memories]
    /\ UNCHANGED << jobVars, batchVars, findVars, cacheVars >>

NextExtract == chunk_succeeds \/ chunk_raises \/ extract_return

SpecExtract == InitExtract /\ [][NextExtract]_vars

\* --------------------------- _extract_with_openai / _extract_with_anthropic
\* The text of a model response, by what json.loads makes of it: it does not
\* parse; an array; an object; another JSON value (number, string, null).  An
\* object is given by the value under each wrapper key and by the object taken
\* as a record (its content, category, importance, entities).
RawRecord(content) ==
    [ is_dict |-> TRUE, content |-> content, category |-> PyStr("issue"),
      importance |-> PyInt(7), entities |-> PyList ]

\* The value under a key of the object: the key is absent, the value is not a
\* list, or it is this list.
KeyAbsent == [present |-> FALSE, is_list |-> FALSE, items |-> << >>]
KeyNotList == [present |-> TRUE, is_list |-> FALSE, items |-> << >>]
KeyList(items) == [present |-> TRUE, is_list |-> TRUE, items |-> items]
KeyValues(key) == { KeyAbsent, KeyNotList, KeyList(<< >>), KeyList(<< RawRecord(PyStr(key)) >>) }

ResponseArrays ==
    { << >>, << RawRecord(PyStr("x")) >>, << RawRecord(PyStr("x")), RawRecord(PyStr("")) >> }

Responses ==
    [ kind : {"unparseable"}, items : {<< >>}, memories : {KeyAbsent},
      results : {KeyAbsent}, data : {KeyAbsent}, self : {NotADict} ]
    \cup
    [ kind : {"scalar"}, items : {<< >>}, memories : {KeyAbsent},
      results : {KeyAbsent}, data : {KeyAbsent}, self : {NotADict} ]
    \cup
    [ kind : {"array"}, items : ResponseArrays, memories : {KeyAbsent},
      results : {KeyAbsent}, data : {KeyAbsent}, self : {NotADict} ]
    \cup
    [ kind : {"object"}, items : {<< >>}, memories : KeyValues("memories"),
      results : KeyValues("results"), data : KeyValues("data"),
      self : { RawRecord(Missing), RawRecord(PyStr("lone")) } ]

\* A mutation of parse_model_response: an object without a wrapper list gives
\* nothing.
parse_model_response_drops_object(response) ==
    CASE response.kind = "unparseable" -> << >>
      [] response.kind = "array" -> response.items
      [] response.kind = "object" ->
            IF response.memories.present /\ response.memories.is_list
            THEN response.memories.items
            ELSE IF response.results.present /\ response.results.is_list
            THEN response.results.items
            ELSE IF response.data.present /\ response.data.is_list
            THEN response.data.items
            ELSE << >>
      [] OTHER -> << >>

\* llm_service.py:635-662, 685-707. The list returned for a response: [] on
\* JSONDecodeError; a list as it is; for an object the list under the first of
\* memories, results, data that holds a list, else the object itself as the one
\* element; [] for any other value.
parse_model_response(response) ==
    CASE response.kind = "unparseable" -> << >>
      [] response.kind = "array" -> response.items
      [] response.kind = "object" ->
            IF response.memories.present /\ response.memories.is_list
            THEN response.memories.items
            ELSE IF response.results.present /\ response.results.is_list
            THEN response.results.items
            ELSE IF response.data.present /\ response.data.is_list
            THEN response.data.items
            ELSE << response.self >>
      [] OTHER -> << >>

Providers == {"openai", "anthropic"}

\* llm_service.py:614-633, 669-683. A response has come back from the provider.
InitParse ==
    /\ RestIdle
    /\ \E provider \in Providers, response \in Responses :
         call = [ fn |-> "_extract_with_provider", pc |-> "responded",
                  provider |-> provider, response |-> response,
                  raw |-> << >>, result |-> << >> ]

\* llm_service.py:635-666, 685-711 and 107-110. The response is parsed and the
\* list returned; extract_memories validates it.
extract_with_provider ==
    /\ call.fn = "_extract_with_provider"
    /\ call.pc = "responded"
    /\ call' = [call EXCEPT
                  !.pc = "returned",
                  !.raw = parse_model_response(call.response),
                  !.result = validate_memory_response(parse_model_response(call.response))]
    /\ UNCHANGED << jobVars, batchVars, findVars, cacheVars >>

NextParse == extract_with_provider

SpecParse == InitParse /\ [][NextParse]_vars

\* ------------------------------------------------------------ privacy.py
\* A text is a sequence of characters.  The patterns tell characters apart by
\* class only, so one digit, one lower-case letter and the upper-case letters
\* of the placeholder (and one more) stand for their classes.
Digits == {"9"}
LowerLetters == {"a"}
UpperLetters == {"A", "C", "D", "E", "R", "T", "Z"}
Letters == LowerLetters \cup UpperLetters
\* \w, as far as the alphabet goes.
WordChars == Digits \cup Letters
\* [\s-]
Separators == {" ", "-"}
\* [A-Za-z0-9._%+-] and [A-Za-z0-9.-], as far as the alphabet goes.
EmailChars == Letters \cup Digits \cup {".", "-"}

\* privacy.py:48, the default replacement "[REDACTED]".
Placeholder == << "[", "R", "E", "D", "A", "C", "T", "E", "D", "]" >>

\* One quantified character class of a pattern: cls{min,max}, or cls{min,}
\* when many.
Item(cls, min, max) == [cls |-> cls, min |-> min, max |-> max, many |-> FALSE]
AtLeast(cls, min) == [cls |-> cls, min |-> min, max |-> min, many |-> TRUE]
One(c) == Item({c}, 1, 1)

\* privacy.py:16-23. Every pattern stands between two \b.
SENSITIVE_PATTERNS ==
    << [type |-> "credit_card",
        items |-> << Item(Digits, 4, 4), Item(Separators, 0, 1),
                     Item(Digits, 4, 4), Item(Separators, 0, 1),
                     Item(Digits, 4, 4), Item(Separators, 0, 1),
                     Item(Digits, 4, 4) >>],
       [type |-> "ssn",
        items |-> << Item(Digits, 3, 3), One("-"), Item(Digits, 2, 2), One("-"),
                     Item(Digits, 4, 4) >>],
       [type |-> "ssn_alt", items |-> << Item(Digits, 9, 9) >>],
       [type |-> "email",
        items |-> << AtLeast(EmailChars, 1), One("@"), AtLeast(EmailChars, 1),
                     One("."), AtLeast(Letters, 2) >>],
       [type |-> "phone", items |-> << Item(Digits, 10, 11) >>],
       [type |-> "passport",
        items |-> << Item(UpperLetters, 2, 2), Item(Digits, 6, 9) >>] >>

IsWordAt(text, i) == i >= 1 /\ i <= Len(text) /\ text[i] \in WordChars

\* \b just before the character at pos.
Boundary(text, pos) == IsWordAt(text, pos - 1) # IsWordAt(text, pos)

\* How many characters of the class follow from pos, up to limit.
RECURSIVE RunLength(_, _, _, _)
RunLength(text, pos, cls, limit) ==
    IF limit = 0 \/ pos > Len(text) THEN 0
    ELSE IF text[pos] \notin cls THEN 0
    ELSE 1 + RunLength(text, pos + 1, cls, limit - 1)

\* The backtracking match of items k.. from pos: each item takes as many
\* characters as it can and gives them back one by one until the rest matches.
\* The position after the match, or 0 when there is none.
RECURSIVE MatchItems(_, _, _, _)
RECURSIVE TryCounts(_, _, _, _, _)
MatchItems(text, pos, items, k) ==
    IF k > Len(items)
    THEN IF Boundary(text, pos) THEN pos ELSE 0
    ELSE TryCounts(text, pos, items, k,
                   RunLength(text, pos, items[k].cls,
                             IF items[k].many THEN Len(text) ELSE items[k].max))

TryCounts(text, pos, items, k, n) ==
    IF n < items[k].min THEN 0
    ELSE LET stop == MatchItems(text, pos + n, items, k + 1)
         IN  IF stop # 0 THEN stop ELSE TryCounts(text, pos, items, k, n - 1)

MatchAt(text, pos, items) ==
    IF Boundary(text, pos) THEN MatchItems(text, pos, items, 1) ELSE 0

\* re.finditer: the matches from left to right, none overlapping another of
\* the same pattern; a match covers start .. stop - 1.
RECURSIVE FindIter(_, _, _)
FindIter(pattern, text, pos) ==
    IF pos > Len(text) THEN << >>
    ELSE LET stop == MatchAt(text, pos, pattern.items)
         IN  IF stop # 0
             THEN << [type |-> pattern.type, start |-> pos, stop |-> stop] >>
                    \o FindIter(pattern, text, stop)
             ELSE FindIter(pattern, text, pos + 1)

\* re.sub: the same matches, each replaced.
RECURSIVE ReSub(_, _, _, _)
ReSub(pattern, replacement, text, pos) ==
    IF pos > Len(text) THEN << >>
    ELSE LET stop == MatchAt(text, pos, pattern.items)
         IN  IF stop # 0
             THEN replacement \o ReSub(pattern, replacement, text, stop)
             ELSE << text[pos] >> \o ReSub(pattern, replacement, text, pos + 1)

\* privacy.py:25-46. Every pattern is searched in the text as it was given.
RECURSIVE DetectFrom(_, _)
DetectFrom(text, k) ==
    IF k > Len(SENSITIVE_PATTERNS) THEN << >>
    ELSE FindIter(SENSITIVE_PATTERNS[k], text, 1) \o DetectFrom(text, k + 1)

detect_sensitive_info(text) == DetectFrom(text, 1)

\* privacy.py:48-63. The patterns are substituted one after the other, each in
\* the text the one before left.
RECURSIVE FilterFrom(_, _)
FilterFrom(text, k) ==
    IF k > Len(SENSITIVE_PATTERNS) THEN text
    ELSE FilterFrom(ReSub(SENSITIVE_PATTERNS[k], Placeholder, text, 1), k + 1)

filter_sensitive_info(text) == FilterFrom(text, 1)

\* privacy.py:65-85
should_redact_memory(memory) == detect_sensitive_info(memory.content) # << >>

\* llm_service.py:116-125
PrivacyPass(records) ==
    [ j \in 1..Len(records) |->
        IF should_redact_memory(records[j])
        THEN [content |-> filter_sensitive_info(records[j].content),
              privacy_filtered |-> TRUE]
        ELSE records[j] ]

\* The contents tried: up to MaxPieces pieces one after the other.
Pieces ==
    { << "9", "9", "9", "9", "9", "9", "9", "9", "9" >>,
      << "9", "9", "9", "-", "9", "9", "-", "9", "9", "9", "9" >>,
      << "9", "9", "9", "9" >>,
      << "9" >>,
      << "Z", "Z" >>,
      << "a", ".", "a", "a" >>,
      << "@" >>,
      << "-" >>,
      << " " >> }

RECURSIVE Flatten(_)
Flatten(ps) == IF ps = << >> THEN << >> ELSE Head(ps) \o Flatten(Tail(ps))

PrivacyTexts == { Flatten(ps) : ps \in UNION { [1..n -> Pieces] : n \in 1..MaxPieces } }

\* A second record after the first: one with nothing sensitive, one with an SSN.
SecondTexts ==
    { << "a" >>, << "9", "9", "9", "-", "9", "9", "-", "9", "9", "9", "9" >> }

\* llm_service.py:284-289: a validated record has no metadata yet.
ValidatedRecord(text) == [content |-> text, privacy_filtered |-> FALSE]

InitPrivacy ==
    /\ RestIdle
    /\ \E t \in PrivacyTexts :
         \/ call = [ fn |-> "privacy_pass", pc |-> "called",
                     records |-> << ValidatedRecord(t) >>, result |-> << >> ]
         \/ \E u \in SecondTexts :
              call = [ fn |-> "privacy_pass", pc |-> "called",
                       records |-> << ValidatedRecord(t), ValidatedRecord(u) >>,
                       result |-> << >> ]

\* llm_service.py:112-129
privacy_pass ==
    /\ call.fn = "privacy_pass"
    /\ call.pc = "called"
    /\ call' = [call EXCEPT !.pc = "returned", !.result = PrivacyPass(call.records)]
    /\ UNCHANGED << jobVars, batchVars, findVars, cacheVars >>

NextPrivacy == privacy_pass

SpecPrivacy == InitPrivacy /\ [][NextPrivacy]_vars

\* ------------------------------------------------- store_caller_memory
\* settings.py:58
high_importance_threshold == 8

\* The importance scores of the claim and the thresholds a deployment may
\* configure.
Importances == 1..10
Thresholds == 1..11

\* What client.store_memory may do: return an id, return None, raise.
StoreMemoryOutcomes == {"id", "none", "raised"}

\* A mutation of is_shareable: strictly above the threshold.
is_shareable_strict(importance, threshold) == importance > threshold

\* openmemory_client.py:491
is_shareable(importance, threshold) == importance >= threshold

\* memory_utils.py:123-135 and openmemory_client.py:505-507: the metadata sent
\* with the memory (the fields that do not depend on the importance are left
\* to the content hash and the sector).
StoredMetadata(content, sector, importance, threshold) ==
    [ sector |-> sector, importance |-> importance,
      content_hash |-> get_content_hash(content),
      shareable |-> is_shareable(importance, threshold) ]

InitStore ==
    /\ RestIdle
    /\ \E importance \in Importances, threshold \in Thresholds :
         call = [ fn |-> "store_caller_memory", pc |-> "called",
                  importance |-> importance, threshold |-> threshold,
                  created |-> << >>, result |-> "" ]

\* openmemory_client.py:485-534. A memory is created when the store returns
\* an id; None is returned when it returns none or anything raises.
store_caller_memory ==
    /\ call.fn = "store_caller_memory"
    /\ call.pc = "called"
    /\ \E outcome \in StoreMemoryOutcomes :
         call' = [call EXCEPT
                    !.pc = "returned",
                    !.created =
                        IF outcome = "id"
                        THEN << StoredMetadata(<< "x" >>, "semantic",
                                               call.importance, call.threshold) >>
                        ELSE << >>,
                    !.result = IF outcome = "id" THEN "id" ELSE "None"]
    /\ UNCHANGED << jobVars, batchVars, findVars, cacheVars >>

NextStore == store_caller_memory

SpecStore == InitStore /\ [][NextStore]_vars

\* ------------------------------------- the storage step run again by a retry
\* background_jobs.py:127, 153-158. The storage step of a job attempt: the
\* routine is about to run for the first time, against a store that accepts
\* every write.
TwoPassCandidates == Candidates \cup { Record(Txt_a_b, "preference", 5) }

TwoPassBatches == UNION { [1..n -> TwoPassCandidates] : n \in 0..MaxBatch }

InitTwoPass ==
    /\ JobInit
    /\ FindIdle
    /\ CacheIdle
    /\ memories \in TwoPassBatches
    /\ store \in InitialStores
    /\ store_up = TRUE
    /\ similar_memories_map = << >>
    /\ pending_hashes = << >>
    /\ bpc = "lookup"
    /\ idx = 1
    /\ retry = NoRetry
    /\ stored_memory_ids = << >>
    /\ reinforced_memory_ids = << >>
    /\ failed_memories = << >>
    /\ record_log = << >>
    /\ lookup = "none"
    /\ call = [ fn |-> "_process_job", pass |-> 1, first_log |-> << >>,
                first_store |-> << >>, first_lookup |-> "none" ]

\* background_jobs.py:192-213, 127, 153-158. The attempt failed after the
\* storage step had returned; the next attempt hands the same records to the
\* routine again, and the store holds what the first pass wrote.
second_pass ==
    /\ call.fn = "_process_job"
    /\ call.pass = 1
    /\ bpc = "done"
    /\ call' = [call EXCEPT !.pass = 2, !.first_log = record_log, !.first_store = store,
                          !.first_lookup = lookup]
    /\ similar_memories_map' = << >>
    /\ pending_hashes' = << >>
    /\ bpc' = "lookup"
    /\ idx' = 1
    /\ retry' = NoRetry
    /\ stored_memory_ids' = << >>
    /\ reinforced_memory_ids' = << >>
    /\ failed_memories' = << >>
    /\ record_log' = << >>
    /\ lookup' = "none"
    /\ UNCHANGED << memories, store, store_up, jobVars, findVars, cacheVars >>

NextTwoPass == BatchNext \/ second_pass

SpecTwoPass == InitTwoPass /\ [][NextTwoPass]_vars

\* ------------------------------------------------------ _filter_transcript alone
\* A message text is a sequence of characters, made of at most MaxWords words
\* joined by single spaces.
MaxWords == 2

\* str.lower() on the letters the words are spelled with.
AsciiLower(text) ==
    [ i \in 1..Len(text) |->
        CASE text[i] = "A" -> "a" [] text[i] = "M" -> "m" [] text[i] = "X" -> "x"
          [] text[i] = "S" -> "s" [] OTHER -> text[i] ]

\* `needle in text`: the needle occurs as a contiguous run of characters.
Occurs(needle, text) ==
    \E i \in 1..(Len(text) - Len(needle) + 1) :
        SubSeq(text, i, i + Len(needle) - 1) = needle

\* text.count(ch) for a single character.
CountChar(ch, text) == Cardinality({ i \in 1..Len(text) : text[i] = ch })

\* llm_service.py:467-471. system_keywords.
system_keywords ==
    { << "s", "y", "s", "t", "e", "m" >>,
      << "c", "o", "n", "f", "i", "g" >>,
      << "c", "o", "n", "f", "i", "g", "u", "r", "a", "t", "i", "o", "n" >>,
      << "a", "p", "i" >>,
      << "e", "n", "d", "p", "o", "i", "n", "t" >>,
      << "j", "s", "o", "n" >>,
      << "y", "a", "m", "l" >>,
      << "x", "m", "l" >>,
      << "m", "a", "r", "k", "d", "o", "w", "n" >>,
      << "c", "o", "d", "e" >>,
      << "f", "u", "n", "c", "t", "i", "o", "n" >>,
      << "t", "o", "o", "l", "_", "c", "a", "l", "l" >>,
      << "r", "a", "g", "_", "r", "e", "t", "r", "i", "e", "v", "a", "l" >>,
      << "l", "l", "m", "_", "u", "s", "a", "g", "e" >>,
      << "m", "e", "t", "a", "d", "a", "t", "a" >> }

\* llm_service.py:474. The alternatives of config_pattern.
config_pattern ==
    { << "m", "a", "x", "_" >>,
      << "m", "i", "n", "_" >>,
      << "t", "i", "m", "e", "o", "u", "t" >>,
      << "c", "o", "n", "f", "i", "g" >>,
      << "s", "e", "t", "t", "i", "n", "g" >> }

\* llm_service.py:473. json_pattern.search(message): an opening brace, a run
\* without braces holding at least two double quotes, a closing brace.
json_pattern_search(message) ==
    \E i, j \in 1..Len(message) :
        /\ i < j
        /\ message[i] = "{" /\ message[j] = "}"
        /\ \A k \in (i + 1)..(j - 1) : message[k] \notin {"{", "}"}
        /\ Cardinality({ k \in (i + 1)..(j - 1) : message[k] = "\"" }) >= 2

\* llm_service.py:474, 499. config_pattern.search(message), re.IGNORECASE.
config_pattern_search(message) ==
    \E alt \in config_pattern : Occurs(alt, AsciiLower(message))

\* llm_service.py:498. has_system_keywords.
has_system_keywords(message) ==
    \E keyword \in system_keywords : Occurs(keyword, AsciiLower(message))

\* llm_service.py:476-515. The rule that skips a message, in the order the
\* loop body tries them, or "keep" when none does.
FilterRule(msg) ==
    LET role == AsciiLower(msg.role)
        message == msg.message
    IN  IF role = << "s", "y", "s", "t", "e", "m" >> THEN "system"
        ELSE IF role \notin { << "u", "s", "e", "r" >>, << "a", "g", "e", "n", "t" >> } THEN "role"
        ELSE IF message = << >> \/ Len(Strip(message)) < 3 THEN "short"
        ELSE IF json_pattern_search(message) /\ Len(message) < 500 THEN "json"
        ELSE IF /\ Len(message) < 200
                /\ has_system_keywords(message)
                /\ config_pattern_search(message) THEN "config"
        ELSE IF /\ Occurs(<< "|" >>, message)
                /\ Occurs(<< "-", "-", "-" >>, message)
                /\ CountChar("|", message) > 3 THEN "table"
        ELSE IF /\ CountChar("{", message) > 2
                /\ CountChar("}", message) > 2
                /\ Len(message) < 300 THEN "braces"
        ELSE "keep"

\* llm_service.py:454-524. _filter_transcript: the kept messages in order,
\* each reduced to its lower-cased role and its text.
RECURSIVE filter_transcript(_)
filter_transcript(transcript) ==
    IF transcript = << >> THEN << >>
    ELSE LET msg == Head(transcript)
             rest == filter_transcript(Tail(transcript))
         IN  IF FilterRule(msg) = "keep"
             THEN << [ role |-> AsciiLower(msg.role), message |-> msg.message ] >> \o rest
             ELSE rest

\* The words of the messages: plain talk, keywords of system_keywords only,
\* alternatives of config_pattern only, a word of both lists, a word in
\* capitals, a JSON fragment, a table row, nested braces, a two-letter word,
\* and a run of 200 characters.
Filler == [ i \in 1..200 |-> "x" ]

Words ==
    { << "h", "e", "l", "l", "o" >>,
      << "e", "n", "d", "p", "o", "i", "n", "t" >>,
      << "a", "p", "i" >>,
      << "t", "i", "m", "e", "o", "u", "t" >>,
      << "m", "a", "x", "_" >>,
      << "s", "e", "t", "t", "i", "n", "g" >>,
      << "c", "o", "n", "f", "i", "g" >>,
      << "M", "A", "X", "_" >>,
      << "{", "\"", "a", "\"", ":", "\"", "b", "\"", "}" >>,
      << "|", "a", "|", "b", "|", "-", "-", "-", "|" >>,
      << "{", "{", "{", "}", "}", "}" >>,
      << "h", "i" >>,
      Filler }

Phrases ==
    UNION { [1..n -> Words] : n \in 1..MaxWords }

RECURSIVE JoinWords(_)
JoinWords(ws) ==
    IF Len(ws) = 1 THEN ws[1] ELSE ws[1] \o << " " >> \o JoinWords(Tail(ws))

FilterRoles == { << "u", "s", "e", "r" >>, << "A", "g", "e", "n", "t" >>, << "s", "y", "s", "t", "e", "m" >>, << "t", "o", "o", "l" >> }

FilterMessages ==
    { [ role |-> r, message |-> JoinWords(ws) ] : r \in FilterRoles, ws \in Phrases }

InitFilter ==
    /\ RestIdle
    /\ \E msg \in FilterMessages :
         call = [ fn |-> "_filter_transcript", pc |-> "called", transcript |-> << msg >>,
                  rules |-> << >>, result |-> << >> ]

\* One call of _filter_transcript; `rules` remembers, per message, the rule
\* that decided.
filter_transcript_call ==
    /\ call.fn = "_filter_transcript"
    /\ call.pc = "called"
    /\ call' = [ call EXCEPT !.pc = "returned",
                             !.rules = [ i \in 1..Len(call.transcript) |->
                                           FilterRule(call.transcript[i]) ],
                             !.result = filter_transcript(call.transcript) ]
    /\ UNCHANGED << jobVars, batchVars, findVars, cacheVars >>

NextFilter == filter_transcript_call

SpecFilter == InitFilter /\ [][NextFilter]_vars

Next ==
    \/ start
    \/ stop_begin
    \/ stop_return
    \/ enqueue_job
    \/ \E t \in Threads : worker(t)

Spec == Init /\ [][Next]_vars

\* The worker threads are scheduled fairly and every external call returns or
\* raises: each enabled step of a live thread is eventually taken.
FairSpec == Spec /\ \A t \in Threads : WF_vars(worker(t))

\* ======================================================== claims, Spec
IsPrefix(s, r) == Len(s) <= Len(r) /\ \A i \in 1..Len(s) : s[i] = r[i]

AllFailed(j) == \A i \in 1..Len(jobLog[j]) : jobLog[j][i].outcome = "exc"

\* C2: for every job, _process_job starts at most 3 attempts; once 3 attempts
\* have been started or the job has returned, no further attempt of that job is
\* ever started.
C2_AtMostThreeAttempts ==
    /\ [](\A j \in JobIds : Len(jobLog[j]) <= 3)
    /\ [][\A j \in JobIds :
            (Len(jobLog[j]) = 3 \/ jobState[j] \in Terminal) => jobLog'[j] = jobLog[j]]_vars

C2_Witness ==
    \E j \in JobIds :
        /\ Len(jobLog[j]) = 3
        /\ AllFailed(j)
        /\ jobState[j] = "FailedExhausted"
        /\ \A t \in Threads : wjob[t] # j

C4_ZeroMemoriesIsCompletion ==
    \A j \in JobIds :
        /\ \A i \in 1..Len(jobLog[j]) :
              ~jobLog[j][i].extracted =>
                 /\ i = Len(jobLog[j])
                 /\ jobLog[j][i].outcome = "nomem"
                 /\ ~jobLog[j][i].storage
                 /\ jobState[j] = "CompletedNoMemories"
                 /\ (i = 1 => artifacts[j] = NoArtifact)
        /\ (jobTranscript[j] = << >> /\ jobState[j] \notin {"New", "Queued"}) =>
              /\ Len(jobLog[j]) <= 1
              /\ \A i \in 1..Len(jobLog[j]) : ~jobLog[j][i].extracted
              /\ \A t \in Threads : wjob[t] = j => wpc[t] = "attempt" /\ wattempt[t] = 0
              /\ artifacts[j] = NoArtifact

C4_Witness ==
    /\ \E j \in JobIds :
          /\ jobTranscript[j] = << >>
          /\ jobState[j] = "CompletedNoMemories"
          /\ jobLog[j] = << LogEntry(FALSE, FALSE, "nomem") >>
    /\ \E j \in JobIds :
          /\ jobTranscript[j] # << >>
          /\ jobState[j] = "CompletedNoMemories"

\* C5 (as stated): jobs are dequeued in enqueue order, and no job is dequeued
\* while a previously dequeued job has not reached a terminal state.
C5_FifoOneAtATime ==
    /\ IsPrefix(dequeued, arrivals)
    /\ Cardinality({j \in JobIds : jobState[j] = "Processing"}) <= 1

\* C6 (as stated): at most one worker thread is consuming the queue at any
\* time, for every sequence of start() and stop().
C6_AtMostOneWorker ==
    Cardinality({t \in Threads : Alive(t)}) <= 1

\* C7 (as stated): once stop() has set running to False, no job is dequeued
\* (until a later start()).
C7_NoDequeueAfterStop ==
    [][running = FALSE => dequeued' = dequeued]_vars

Handled(b, r) ==
    { k \in 1..Len(record_log) : record_log[k].branch = b /\ record_log[k].result = r }

\* C1 (as stated): a validated record with no similar existing memory, handled
\* while the store accepts the write, is stored as a new memory, and the returned
\* result counts it as stored: nothing failed for it.
C1_NewRecordStored ==
    store_up =>
        /\ \A k \in 1..Len(record_log) :
               record_log[k].branch = "new" => record_log[k].result = "stored"
        /\ bpc = "done" =>
               BatchResult.stats.stored_count >= Cardinality(Handled("new", "stored"))
                                                 + Cardinality(Handled("new", "failed"))

\* C9: a store or reinforce call whose attempts all fail (by raising or by a
\* non-success result) is attempted exactly max_attempts times and is then
\* recorded as failed; no call is attempted more than max_attempts times; a
\* success is the last attempt of its call.
C9_RetryExactlyMaxAttempts ==
    /\ Len(retry.calls) <= memory_storage_retry_attempts
    /\ \A i \in 1..(Len(retry.calls) - 1) : retry.calls[i] # "ok"
    /\ retry.state = "running" =>
           /\ Len(retry.calls) < memory_storage_retry_attempts
           /\ \A i \in 1..Len(retry.calls) : retry.calls[i] # "ok"
    /\ retry.state = "exhausted" =>
           /\ Len(retry.calls) = memory_storage_retry_attempts
           /\ \A i \in 1..Len(retry.calls) : retry.calls[i] \in {"nonsuccess", "raise"}
           /\ record_log # << >>
           /\ record_log[Len(record_log)].result = "failed"
    /\ retry.state = "success" =>
           /\ retry.calls[Len(retry.calls)] = "ok"
           /\ record_log # << >>
           /\ record_log[Len(record_log)].result \in {"stored", "reinforced"}

\* C9 witness: a reinforce call that failed three times, by both kinds of
\* failure, and was given up.
C9_Witness ==
    /\ retry.op = "reinforce"
    /\ retry.state = "exhausted"
    /\ Len(retry.calls) = 3
    /\ retry.calls[1] = "raise"
    /\ retry.calls[2] = "nonsuccess"
    /\ retry.delays = << 1, 2 >>

\* C10: every record whose store or reinforce failed after all retries, or
\* whose processing raised, is in the failed list with a non-empty reason
\* (one failed entry per failed record, in order); the routine processes the
\* records in order whatever happened to the earlier ones, and
\* returns with every record of the batch processed.
C10_FailureIsolated ==
    LET failed_idx == SelectSeq(record_log, LAMBDA e : e.result = "failed")
    IN  /\ Len(failed_memories) = Len(failed_idx)
        /\ \A i \in 1..Len(failed_idx) :
               /\ i <= Len(failed_memories)
               /\ failed_memories[i].memory = memories[failed_idx[i].idx]
               /\ failed_memories[i].error # ""
        /\ \A k \in 1..Len(record_log) : record_log[k].idx = k
        /\ bpc \in {"lookup", "semantic", "next", "store", "reinforce", "done"}
        /\ bpc \in {"next", "done"} => Len(record_log) = idx - 1
        /\ bpc = "done" => Len(record_log) = Len(memories)

\* C10 witness: the first record's store call failed after all retries, and
\* the second record was still processed and reinforced; the routine returned.
C10_Witness ==
    /\ bpc = "done"
    /\ Len(record_log) = 2
    /\ record_log[1].branch = "conflict"
    /\ record_log[1].result = "failed"
    /\ record_log[2].result = "reinforced"
    /\ BatchResult.stats.failed_count = 1
    /\ BatchResult.stats.reinforced_count = 1


\* The memories the store held before this run: those this run did not add.
ExistingBefore ==
    SelectSeq(store, LAMBDA m : \A i \in 1..Len(stored_memory_ids) : m.id # stored_memory_ids[i])

\* The batch is one valid record whose content hash is that of a memory the
\* store already held, and the routine has returned.
OneRecordWithHashMatch ==
    /\ bpc = "done"
    /\ Len(memories) = 1
    /\ memories[1].content # << >>
    /\ validate_memory_content(memories[1].content)
    /\ ByHash(ExistingBefore, get_content_hash(memories[1].content)) # << >>

\* The conflict rule as the claims state it, for a matched memory and a record.
StatedConflict(m, r) ==
    /\ Lower(m.content) = Lower(r.content)
    /\ (m.category # r.category \/ Abs(m.importance - r.importance) > 2)

HashMatchOf(k) ==
    IF lookup = "ok" /\ memories[k].content # << >>
    THEN ExistingByHash(ExistingBefore, get_content_hash(memories[k].content))
    ELSE NoneMemory

\* C12 (as stated): a record with the same normalized content (same content
\* hash) as an existing memory but another category is handled as a conflict
\* and, the store accepting writes, stored as a new memory; it is not a
\* reinforcement.
C12_SameNormalizedOtherCategoryStored ==
    \A k \in 1..Len(record_log) :
        (/\ validate_memory_content(memories[k].content)
         /\ HashMatchOf(k) # NoneMemory
         /\ HashMatchOf(k).category # memories[k].category) =>
            /\ record_log[k].branch = "conflict"
            /\ store_up => record_log[k].result = "stored"

\* C12 (amended): a record whose hash matches an existing memory of another
\* category is a conflict, stored as a new memory (when a store call succeeds)
\* and never a reinforcement, exactly when its content equals the memory's
\* compared case-insensitively; when the two differ otherwise (they agree only
\* after whitespace collapsing) the record is handled as a reinforcement of the
\* existing memory and nothing is stored for it.
C12_SameTextOtherCategoryStored ==
    \A k \in 1..Len(record_log) :
        (/\ validate_memory_content(memories[k].content)
         /\ HashMatchOf(k) # NoneMemory
         /\ HashMatchOf(k).category # memories[k].category) =>
            IF Lower(HashMatchOf(k).content) = Lower(memories[k].content)
            THEN /\ record_log[k].branch = "conflict"
                 /\ record_log[k].result \in {"stored", "failed"}
                 /\ store_up => record_log[k].result = "stored"
            ELSE /\ record_log[k].branch = "reinforce"
                 /\ record_log[k].result \in {"reinforced", "failed"}
                 /\ store_up => record_log[k].result = "reinforced"

\* C12 witness: "c d" (factual) met the existing "c d" (preference) and was
\* stored next to it as a second memory; nothing was reinforced.
C12_Witness ==
    /\ bpc = "done"
    /\ memories = << Record(Txt_c_d, "factual", 8) >>
    /\ lookup = "ok"
    /\ record_log = << [idx |-> 1, branch |-> "conflict", result |-> "stored"] >>
    /\ Len(store) = 2
    /\ store[1].category = "preference" /\ store[1].reinforced = 0
    /\ store[2].category = "factual" /\ store[2].content = Txt_c_d
    /\ reinforced_memory_ids = << >>

\* The duplicate-candidate of record k: the memory the lookup gave for its hash.
MatchedMemory(k) ==
    LET h == get_content_hash(memories[k].content)
    IN  IF h \in DOMAIN similar_memories_map THEN similar_memories_map[h] ELSE NoneMemory

\* C13: a record with a duplicate-candidate (by hash or by semantic match) is
\* classified conflict exactly when the matched content equals its content
\* ignoring case and (the categories differ or the importances differ by more
\* than 2); every other record with a duplicate-candidate is classified
\* reinforce, and no new memory is stored for it.
C13_ConflictExactlyWhenStated ==
    /\ \A k \in 1..Len(record_log) :
          LET b == record_log[k].branch
              dup == MatchedMemory(k) # NoneMemory
              stated == StatedConflict(MatchedMemory(k), memories[k])
          IN  b \in {"conflict", "reinforce", "no_id", "new"} =>
                 /\ b = "conflict" <=> (dup /\ stated)
                 /\ b \in {"reinforce", "no_id"} <=> (dup /\ ~stated)
                 /\ b \in {"reinforce", "no_id"} => record_log[k].result # "stored"
    /\ bpc \in {"store", "reinforce"} =>
          /\ MatchedMemory(idx) # NoneMemory
          /\ (bpc = "store") <=> StatedConflict(MatchedMemory(idx), memories[idx])
    /\ Len(store) = Len(ExistingBefore) + Cardinality(Handled("conflict", "stored"))

\* C13 witness: against the existing "a b" (factual, 3), "a b" (factual, 5), an
\* importance difference of exactly 2, was a reinforcement, and "A b"
\* (factual, 6), a difference of 3 under another case, was a conflict.
C13_Witness ==
    /\ bpc = "done"
    /\ memories = << Record(Txt_a_b, "factual", 5), Record(Txt_A_b, "factual", 6) >>
    /\ MatchedMemory(1).content = Txt_a_b /\ MatchedMemory(1).importance = 3
    /\ MatchedMemory(2) = MatchedMemory(1)
    /\ record_log[1].branch = "reinforce"
    /\ record_log[2].branch = "conflict"

\* C15 (as stated): when the batch lookup failed by raising, every record is
\* still checked individually, so no record whose content hash is that of a
\* memory the store already held is handled as new.
C15_FailedLookupStillFindsDuplicate ==
    lookup = "raised" =>
        \A k \in 1..Len(record_log) :
            record_log[k].branch = "new" =>
                ByHash(ExistingBefore, get_content_hash(memories[k].content)) = << >>

\* ---------------------------------------------------------------------
\* Claims about find_similar_memory (specification SpecFind)
\* ---------------------------------------------------------------------

\* The call found no memory by hash.
NoHashMatch ==
    find_call.answers.hash_search = "empty" \/ ByHash(find_call.st, find_call.hash) = << >>

\* C14: a candidate with no hash match is a duplicate-candidate (a memory is
\* returned, and it is the top semantic hit) if and only if there is a top hit
\* and its score is >= the similarity threshold, a score equal to the
\* threshold included; with a lower score or without hit None is returned.
C14_DuplicateIffScoreAtLeastThreshold ==
    (find_call.pc = "returned" /\ NoHashMatch) =>
        LET top == find_call.answers.semantic
        IN  /\ find_call.result # NoneMemory <=>
                  (top.hit /\ top.score >= memory_similarity_threshold)
            /\ find_call.result # NoneMemory => find_call.result = find_call.st[top.index]

\* C14 witness: no hash match, a top hit whose score equals the threshold: the
\* hit is returned.
C14_Witness ==
    /\ find_call.pc = "returned"
    /\ NoHashMatch
    /\ find_call.answers.semantic.hit
    /\ find_call.answers.semantic.score = 85
    /\ find_call.result = find_call.st[1]

\* C16: MemoryCache.get never returns an entry whose age exceeds its TTL,
\* whatever calls of set, get, invalidate and clear and whatever clock
\* advances came before: a get that returns an entry returns one no older,
\* at the time of the call, than its TTL.
C16_NeverReturnsExpired ==
    (last_op.op = "get" /\ last_op.returned # NoEntry)
        => now - last_op.returned.timestamp <= last_op.returned.ttl

\* A get returned an entry whose age is exactly its TTL.
C16_Witness ==
    /\ last_op.op = "get"
    /\ last_op.returned # NoEntry
    /\ now - last_op.returned.timestamp = last_op.returned.ttl
    /\ now > 0

\* C17: after invalidate(caller, agent) a get(caller, agent) returns none,
\* whatever the TTL of the entry was, until a later set for that key: the
\* invalidation leaves the key absent, only a set for a key makes it present
\* again, and a get for an absent key returns none.
C17_InvalidatedUntilSet ==
    [][ \A a \in CacheArgs :
          LET k == get_cache_key(a[1], a[2])
          IN  /\ cache_invalidate(a[1], a[2]) => cache'[k] = NoEntry
              /\ (cache[k] = NoEntry /\ cache'[k] # NoEntry)
                    => \E m \in MemoryLists, ttl \in TtlArgs : cache_set(a[1], a[2], m, ttl)
              /\ (cache[k] = NoEntry /\ cache_get(a[1], a[2]))
                    => last_op'.returned = NoEntry ]_vars

\* An invalidation removed the entry of its key while that entry had not expired.
C17_Witness ==
    /\ last_op.op = "invalidate"
    /\ get_cache_key(last_op.caller_id, last_op.agent_id) \in last_op.removed
    /\ cache[get_cache_key(last_op.caller_id, last_op.agent_id)] = NoEntry
    /\ now > 0

\* C18: invalidate(caller, agent) with a specific agent removes exactly the
\* entries (caller, agent) and (caller, wildcard); every other entry, of other
\* callers and of the same caller's other agents, is unchanged.
C18_InvalidateRemovesExactlyTwo ==
    [][ \A a \in CacheArgs :
          (a[2] # NoAgent /\ cache_invalidate(a[1], a[2]))
            => \A k \in CacheKeys :
                 cache'[k] = IF k \in { get_cache_key(a[1], a[2]),
                                        get_cache_key(a[1], NoAgent) }
                             THEN NoEntry ELSE cache[k] ]_vars

\* An invalidation with a specific agent removed both the agent's entry and the
\* caller's wildcard entry.
C18_Witness ==
    /\ last_op.op = "invalidate"
    /\ last_op.agent_id # NoAgent
    /\ last_op.removed = { get_cache_key(last_op.caller_id, last_op.agent_id),
                           get_cache_key(last_op.caller_id, NoAgent) }

\* C19: an exception raised while the cache is invalidated after the storage
\* step does not block the storage result: no attempt that ran the storage
\* step is counted as failed, so the job is not retried, the storage step is
\* not run a second time and no failure artifact is written.
C19_InvalidationErrorDoesNotFailAttempt ==
    \A j \in JobIds :
        /\ \A i \in DOMAIN jobLog[j] : jobLog[j][i].storage => jobLog[j][i].outcome # "exc"
        /\ Cardinality({ i \in DOMAIN jobLog[j] : jobLog[j][i].storage }) <= 1
        /\ sleeps[j] = << >>
        /\ artifacts[j] = NoArtifact

Normalized(content) == CollapseWhitespace(Strip(Lower(content)))

HashReturned == call.fn = "get_content_hash" /\ call.pc = "returned"

\* C21: get_content_hash returns equal hashes for any two contents that are
\* equal after lower-casing, trimming and collapsing each whitespace run to one
\* space.
C21_EqualNormalizedEqualHash ==
    (HashReturned /\ Normalized(call.args[1]) = Normalized(call.args[2]))
        => call.result[1] = call.result[2]

ValidateReturned == call.fn = "_validate_memory_response" /\ call.pc = "returned"

\* The entries of a raw list that the claim says are kept: the records whose
\* content is present, a string and not empty.
RECURSIVE KeptEntries(_)
KeptEntries(raw) ==
    IF raw = << >> THEN << >>
    ELSE (IF Head(raw).is_dict /\ Head(raw).content.t = "str" /\ Head(raw).content.s # ""
          THEN << Head(raw) >> ELSE << >>) \o KeptEntries(Tail(raw))

\* C22: every record returned by _validate_memory_response has a non-empty
\* string content, a category among the five and an integer importance in
\* 1..10; an unknown category is replaced by "factual", a non-integer or
\* out-of-range importance by 5, non-list entities by the empty list, and only
\* the records with missing, empty or non-string content are rejected.
C22_ValidatedRecordsWellFormed ==
    ValidateReturned =>
        LET kept == KeptEntries(call.args)
        IN  /\ Len(call.result) = Len(kept)
            /\ \A i \in 1..Len(call.result) :
                 LET r == call.result[i]
                     m == kept[i]
                 IN  /\ r.content = m.content
                     /\ r.category.t = "str" /\ r.category.s \in valid_categories
                     /\ r.category = IF m.category.t = "str" /\ m.category.s \in valid_categories
                                     THEN m.category ELSE PyStr("factual")
                     /\ r.importance.t = "int" /\ r.importance.n \in 1..10
                     /\ r.importance = IF m.importance.t = "int" /\ m.importance.n \in 1..10
                                       THEN m.importance ELSE PyInt(5)
                     /\ r.entities = PyList

ChunkCall == call.fn = "_chunk_transcript"
ChunkOver == ChunkCall /\ call.pc \in {"returned", "raised"}

\* C23 as stated: if the total token estimate of the transcript is at most
\* max_tokens, _chunk_transcript returns exactly one chunk, holding every
\* message of the transcript in the original order.
C23_SingleChunkWhenWithinBudget ==
    (ChunkOver /\ total_tokens(call.transcript) <= call.max_tokens)
        => /\ call.pc = "returned"
           /\ Len(call.result) = 1
           /\ Len(call.result[1].chunk) = Len(call.transcript)
           /\ \A k \in 1..Len(call.transcript) : call.result[1].chunk[k].id = k

\* C23, amended: that holds for a transcript with at least one message; for the
\* empty transcript, whose estimate is 0, no chunk at all is returned.
C23_SingleChunkUnlessEmpty ==
    (ChunkOver /\ total_tokens(call.transcript) <= call.max_tokens)
        => /\ call.pc = "returned"
           /\ IF call.transcript = << >>
              THEN call.result = << >>
              ELSE /\ Len(call.result) = 1
                   /\ Len(call.result[1].chunk) = Len(call.transcript)
                   /\ \A k \in 1..Len(call.transcript) :
                        call.result[1].chunk[k] = MsgAt(call.transcript, k)
                   /\ call.result[1].chunk_index = 0

\* A transcript of several messages within the budget came back as one chunk.
C23_Witness ==
    /\ ChunkCall
    /\ call.pc = "returned"
    /\ Len(call.transcript) >= 2
    /\ total_tokens(call.transcript) <= call.max_tokens
    /\ Len(call.result) = 1

\* The chunks with the leading overlap messages of every chunk after the first
\* removed, concatenated in index order.
RECURSIVE NonOverlapConcat(_, _, _)
NonOverlapConcat(chunks, k, budget) ==
    IF k > Len(chunks) THEN << >>
    ELSE LET lead == IF k = 1 THEN 0
                     ELSE Len(overlap_messages(chunks[k - 1].chunk, budget))
         IN  SubSeq(chunks[k].chunk, lead + 1, Len(chunks[k].chunk))
                 \o NonOverlapConcat(chunks, k + 1, budget)

\* C24: for every transcript, max_tokens and overlap_tokens the call returns,
\* and the chunks without their leading overlap messages, concatenated in index
\* order, are the input transcript: nothing dropped, repeated or reordered.
C24_ChunksCoverTranscript ==
    ChunkOver
        => /\ call.pc = "returned"
           /\ NonOverlapConcat(call.result, 1, call.overlap_tokens)
                 = AllMessages(call.transcript)

\* C25: a message whose own token estimate exceeds max_tokens is still emitted
\* by _chunk_transcript in a chunk and never dropped, whatever precedes it and
\* whatever the overlap budget: the call returns and a chunk holds the message.
C25_OversizedMessageEmitted ==
    ChunkOver =>
        \A k \in 1..Len(call.transcript) :
            estimate_tokens(call.transcript[k].chars) > call.max_tokens
                => /\ call.pc = "returned"
                   /\ \E c \in 1..Len(call.result) :
                        \E p \in 1..Len(call.result[c].chunk) :
                            call.result[c].chunk[p] = MsgAt(call.transcript, k)

\* The records of the chunks that did not raise, in chunk order.
RECURSIVE MemoriesOfGoodChunks(_, _)
MemoriesOfGoodChunks(outcomes, k) ==
    IF k > Len(outcomes) THEN << >>
    ELSE (IF outcomes[k].raised THEN << >> ELSE ChunkMemories(k - 1, outcomes[k].count))
            \o MemoriesOfGoodChunks(outcomes, k + 1)

\* C26: in extract_memories an exception raised while one chunk is processed is
\* caught and the chunk skipped: every chunk is processed, the records of all
\* the other chunks are returned, and successful_chunks + failed_chunks is the
\* number of chunks.
C26_ChunkFailureIsolated ==
    (call.fn = "extract_memories" /\ call.pc = "returned")
        => /\ Len(call.outcomes) = call.total_chunks
           /\ call.result = MemoriesOfGoodChunks(call.outcomes, 1)
           /\ call.successful_chunks + call.failed_count = call.total_chunks
           /\ call.failed_count = Len(call.failed_chunks)

\* A chunk raised, a later chunk gave records, and they were returned.
C26_Witness ==
    /\ call.fn = "extract_memories"
    /\ call.pc = "returned"
    /\ \E k \in 1..Len(call.outcomes) :
         /\ call.outcomes[k].raised
         /\ \E l \in (k + 1)..Len(call.outcomes) :
              ~call.outcomes[l].raised /\ call.outcomes[l].count > 0
    /\ call.result # << >>

ParseReturned == call.fn = "_extract_with_provider" /\ call.pc = "returned"

\* The object exposes a wrapper key: one of memories, results, data is there.
ExposesWrapperKey(response) ==
    response.memories.present \/ response.results.present \/ response.data.present

PrivacyReturned == call.fn = "privacy_pass" /\ call.pc = "returned"

\* The characters of the text that no detected span covers.
RECURSIVE Uncovered(_, _, _)
Uncovered(text, spans, pos) ==
    IF pos > Len(text) THEN << >>
    ELSE (IF \E k \in 1..Len(spans) : spans[k].start <= pos /\ pos < spans[k].stop
          THEN << >> ELSE << text[pos] >>)
         \o Uncovered(text, spans, pos + 1)

\* The text without the placeholders in it.
RECURSIVE WithoutPlaceholders(_)
WithoutPlaceholders(text) ==
    IF text = << >> THEN << >>
    ELSE IF Len(text) >= Len(Placeholder)
            /\ SubSeq(text, 1, Len(Placeholder)) = Placeholder
    THEN WithoutPlaceholders(SubSeq(text, Len(Placeholder) + 1, Len(text)))
    ELSE << Head(text) >> \o WithoutPlaceholders(Tail(text))

\* C28: the privacy pass returns as many records as it received, in the same
\* order; a record whose content matches a sensitive pattern is tagged
\* privacy_filtered and none of its matched spans is left (what remains
\* besides the placeholders is what no match covered); a record with no match
\* is passed on unchanged and untagged.
C28_PrivacyPassRedactsEveryMatch ==
    PrivacyReturned =>
        /\ Len(call.result) = Len(call.records)
        /\ \A j \in 1..Len(call.records) :
             LET content == call.records[j].content
                 detected == detect_sensitive_info(content)
             IN  IF detected = << >>
                 THEN call.result[j] = call.records[j]
                 ELSE /\ call.result[j].privacy_filtered
                      /\ WithoutPlaceholders(call.result[j].content)
                            = Uncovered(content, detected, 1)

StoreReturned == call.fn = "store_caller_memory" /\ call.pc = "returned"

\* C29: a memory created by store_caller_memory carries shareable = true
\* exactly when its importance is at least the configured high-importance
\* threshold, for every importance from 1 to 10.
C29_ShareableIffImportant ==
    StoreReturned =>
        \A k \in 1..Len(call.created) :
            /\ call.created[k].importance = call.importance
            /\ call.created[k].shareable <=> (call.importance >= call.threshold)

\* A memory of importance exactly the default threshold was created shareable.
C29_Witness ==
    /\ StoreReturned
    /\ call.threshold = high_importance_threshold
    /\ call.importance = high_importance_threshold
    /\ Len(call.created) = 1
    /\ call.created[1].shareable

\* The attempts of the job that ended with an exception.
FailedAttempts(j) == Cardinality({ i \in 1..Len(jobLog[j]) : jobLog[j][i].outcome = "exc" })

C31_ChunksBoundedByMessages ==
    ChunkCall =>
        /\ call.pc # "raised"
        /\ Len(call.chunks) <= Len(call.transcript)
        /\ Len(call.result) <= Len(call.transcript)

\* C35: every chunk emitted on the multi-chunk path that holds more than one
\* message has a token estimate, overlap included, of at most max_tokens.
C35_MultiMessageChunkWithinBudget ==
    ChunkCall =>
        \A c \in 1..Len(call.chunks) :
            Len(call.chunks[c].chunk) > 1
                => /\ call.chunks[c].token_count = SumTokens(call.chunks[c].chunk)
                   /\ call.chunks[c].token_count <= call.max_tokens

\* The suffixes of the window whose cumulative estimate is within the budget,
\* and the longest of them.
FittingSuffixes(window, budget) ==
    { x \in { SubSeq(window, k, Len(window)) : k \in 1..(Len(window) + 1) } :
        SumTokens(x) <= budget }

LongestFittingSuffix(window, budget) ==
    CHOOSE x \in FittingSuffixes(window, budget) :
        \A y \in FittingSuffixes(window, budget) : Len(y) <= Len(x)

\* C37: when _chunk_transcript closes a window, the next window starts with
\* the longest suffix of the closed window whose cumulative token estimate is
\* at most overlap_tokens (none when even the last message exceeds it), in the
\* original order, and holds nothing else but, after it, the message at hand.
C37_NextWindowSeededWithLongestSuffix ==
    [][(ChunkCall /\ call.pc = "loop" /\ call'.pc = "loop"
            /\ Len(call'.chunks) = Len(call.chunks) + 1)
        => LET closed == call'.chunks[Len(call'.chunks)].chunk
               seed == LongestFittingSuffix(closed, call.overlap_tokens)
           IN  /\ closed = call.current_chunk
               /\ \/ call'.current_chunk = seed /\ call'.i = call.i
                  \/ /\ call'.current_chunk = Append(seed, MsgAt(call.transcript, call.i))
                     /\ call'.i = call.i + 1
               /\ call'.current_tokens = SumTokens(call'.current_chunk)]_vars

\* A call returned three chunks: the second starts with the first message,
\* carried over from the first chunk, and the third, closed after a message
\* beyond the overlap budget, starts with no overlap.
C37_Witness ==
    /\ ChunkCall
    /\ call.pc = "returned"
    /\ call.overlap_tokens > 0
    /\ Len(call.result) = 3
    /\ Len(call.result[2].chunk) = 2
    /\ call.result[2].chunk[1] = call.result[1].chunk[Len(call.result[1].chunk)]
    /\ call.result[3].chunk[1].id = 3

\* The records of the batch with non-empty content.
NonEmptyRecords == { k \in 1..Len(memories) : memories[k].content # << >> }

\* C32: in the result of _store_memories_with_deduplication every record with
\* non-empty content is in exactly one of the lists stored, reinforced, failed:
\* the three counts are the lengths of their lists and add up to the number of
\* such records, which is total_count when no record is empty; none is dropped.
C32_EveryRecordAccounted ==
    bpc = "done" =>
        LET stats == BatchResult.stats
        IN  /\ stats.stored_count = Len(BatchResult.stored)
            /\ stats.reinforced_count = Len(BatchResult.reinforced)
            /\ stats.failed_count = Len(BatchResult.failed)
            /\ \A k \in NonEmptyRecords :
                 record_log[k].result \in {"stored", "reinforced", "failed"}
            /\ stats.stored_count + stats.reinforced_count + stats.failed_count
                 = Cardinality(NonEmptyRecords)
            /\ NonEmptyRecords = 1..Len(memories)
                 => stats.stored_count + stats.reinforced_count + stats.failed_count
                      = stats.total_count

\* Two records of the batch, the second later than the first, with the same
\* normalized content (hence the same content hash), both already processed.
SameContentPairs ==
    { pr \in (1..Len(record_log)) \X (1..Len(record_log)) :
        /\ pr[1] < pr[2]
        /\ memories[pr[1]].content # << >>
        /\ get_content_hash(memories[pr[1]].content)
             = get_content_hash(memories[pr[2]].content) }

\* C33: when a batch holds two records with the same normalized content and no
\* existing memory matches the first, the later one is deduplicated against
\* the first (it is not handled as a new memory), and at most one memory is
\* stored for that content.
C33_RepeatedContentStoredOnce ==
    \A pr \in SameContentPairs :
        record_log[pr[1]].branch = "new"
            => /\ record_log[pr[2]].branch # "new"
               /\ ~(record_log[pr[1]].result = "stored" /\ record_log[pr[2]].result = "stored")

SecondPass == call.fn = "_process_job" /\ call.pass = 2

\* C34: the second pass over the same batch, against the store that kept the
\* first pass's writes and whose list of existing memories was read in both
\* passes, stores nothing for a record the first pass stored (as a conflict
\* too) or reinforced: such a record is only reinforced.  Stated for the
\* records whose content hash a memory of the store carries, for which the
\* lookup does not depend on what the semantic search answers.
C34_SecondPassOnlyReinforces ==
    (SecondPass /\ call.first_lookup = "ok" /\ lookup = "ok") =>
        \A k \in 1..Len(record_log) :
            (/\ call.first_log[k].result \in {"stored", "reinforced"}
             /\ \E x \in 1..Len(call.first_store) :
                   call.first_store[x].content_hash = get_content_hash(memories[k].content))
                => /\ record_log[k].result # "stored"
                   /\ record_log[k].branch = "reinforce"

\* The memory the batch index (existing_by_hash) holds for a hash, during the
\* lookup: built from the one fetch of the caller's memories.
IndexMatch(h) == ExistingByHash(IF lookup = "ok" THEN store ELSE << >>, h)

\* C36: a semantic query is issued only by the Step 5 call for a hash the
\* batch index does not match, once per such hash; a hash the index matches
\* keeps the index's memory and is never searched for; the existing memories
\* are fetched once per batch, and no record makes an individual check.
C36_SemanticSearchOnlyWithoutHashMatch ==
    [][ /\ bpc = "semantic" =>
              LET h == Head(pending_hashes)
              IN  /\ IndexMatch(h) = NoneMemory
                  /\ similar_memories_map[h] = NoneMemory
                  /\ pending_hashes' = Tail(pending_hashes)
                  /\ \A k \in 1..Len(pending_hashes') : pending_hashes'[k] # h
                  /\ \A g \in DOMAIN similar_memories_map :
                        g # h => similar_memories_map'[g] = similar_memories_map[g]
        /\ bpc = "lookup" =>
              /\ lookup = "none"
              /\ bpc' # "lookup"
              /\ \A g \in DOMAIN similar_memories_map' :
                    IndexMatch(g)' # NoneMemory =>
                        /\ similar_memories_map'[g] = IndexMatch(g)'
                        /\ \A k \in 1..Len(pending_hashes') : pending_hashes'[k] # g
        /\ bpc \notin {"lookup", "semantic"} =>
              /\ similar_memories_map' = similar_memories_map
              /\ pending_hashes' = << >> /\ pending_hashes = << >>
              /\ bpc' \notin {"lookup", "semantic"}
              /\ lookup' = lookup
              /\ (bpc = "next" /\ idx <= Len(memories) /\ memories[idx].content # << >>)
                    => get_content_hash(memories[idx].content) \in DOMAIN similar_memories_map
      ]_vars

\* C36 witness: the lookup is over; one hash of the batch was matched by the
\* index and another was not and got its memory from the semantic search.
C36_Witness ==
    /\ bpc = "next" /\ idx = 1 /\ lookup = "ok"
    /\ \E h1, h2 \in DOMAIN similar_memories_map :
          /\ h1 # h2
          /\ IndexMatch(h1) # NoneMemory
          /\ similar_memories_map[h1] = IndexMatch(h1)
          /\ IndexMatch(h2) = NoneMemory
          /\ similar_memories_map[h2] # NoneMemory

\* C38: an entry written by set with an explicit ttl t >= 0 is returned by no
\* get made more than t seconds after that set, whatever the default TTL.
C38_ExplicitTtlHonoured ==
    (last_op.op = "get" /\ last_op.returned # NoEntry) =>
        LET given == set_ttl[get_cache_key(last_op.caller_id, last_op.agent_id)]
        IN  given # NoTtl => now - last_op.returned.timestamp <= given

\* The failed calls of the _with_retry loop in progress (or just ended).
FailedCalls == { n \in 1..Len(retry.calls) : retry.calls[n] # "ok" }

\* C39: in both _with_retry loops the n-th attempt, when it fails by an
\* exception or by a non-success result alike and is not the last of
\* max_attempts, is followed by a sleep of initial_delay * 2^(n-1) seconds
\* (1 s, then 2 s); nothing else is slept, so no sleep follows the final attempt.
C39_BackoffBetweenAttempts ==
    retry.op # "none" =>
        /\ Len(retry.calls) <= memory_storage_retry_attempts
        /\ DOMAIN retry.delays = FailedCalls \ {memory_storage_retry_attempts}
        /\ \A n \in DOMAIN retry.delays :
              retry.delays[n] = memory_storage_retry_delay_seconds * (2 ^ (n - 1))
        /\ \E k \in 0..2 : retry.delays = SubSeq(<< 1, 2 >>, 1, k)

\* C39 witness: a loop used up its three attempts, failing by an exception and
\* by a non-success result, and slept 1 s and 2 s and nothing after the last.
C39_Witness ==
    /\ retry.op # "none"
    /\ retry.state = "exhausted"
    /\ Len(retry.calls) = memory_storage_retry_attempts
    /\ retry.calls[1] = "raise" /\ retry.calls[2] = "nonsuccess"
    /\ retry.delays = << 1, 2 >>

\* llm_service.py spells the parameter-like tokens among config_pattern's
\* alternatives: max_, min_, setting.
ParameterTokens == { << "m", "a", "x", "_" >>, << "m", "i", "n", "_" >>, << "s", "e", "t", "t", "i", "n", "g" >> }

HasParameterToken(message) == \E tok \in ParameterTokens : Occurs(tok, AsciiLower(message))

\* C40: a message shorter than 200 characters that reaches the keyword rule
\* is dropped by it exactly when it contains both a configuration keyword and
\* a parameter-like token (max_, min_, setting); with a keyword only or a
\* parameter-like token only it is not dropped by this rule.
C40_DroppedIffKeywordAndParameterToken ==
    (call.fn = "_filter_transcript" /\ call.pc = "returned") =>
        \A i \in 1..Len(call.transcript) :
            LET message == call.transcript[i].message
            IN  (Len(message) < 200 /\ call.rules[i] \notin {"system", "role", "short", "json"})
                    => (call.rules[i] = "config"
                            <=> (has_system_keywords(message) /\ HasParameterToken(message)))

====
